---------------------------- MODULE Spec2Model ----------------------------
(***************************************************************************)
(* Domain context management of OpenSBI (Penglai-Enclave fork).            *)
(*                                                                         *)
(* The module models the next_ctx variant of the context manager:          *)
(*   - sbi_context_mgmt_init / setup_domain_context, which allocate one    *)
(*     context slot per (domain, possible hart) and thread the per-hart    *)
(*     boot-up chain through the slots' next_ctx fields;                   *)
(*   - sbi_context_domain_enter / sbi_context_domain_exit and the switcher *)
(*     switch_to_next_domain_context they share;                           *)
(*   - startup_next_domain_context, which starts a domain whose slot has   *)
(*     never been saved.                                                   *)
(*                                                                         *)
(* Pointers are natural numbers, NULL is 0.  Hart masks are sets of hart   *)
(* indexes.  A CSR or register value is a natural number read as a bit     *)
(* vector.                                                                 *)
(***************************************************************************)
EXTENDS Naturals, Integers, Sequences, FiniteSets, TLC

(***************************************************************************)
(* Bounds of the model.                                                    *)
(***************************************************************************)
\* number of harts of the platform
NumHarts == 2
\* number of registered domains, the root domain included
NumDomains == 3
\* largest value S-mode software writes to a CSR or a register
MaxVal == 1
\* number of times S-mode software changes a register between two traps
MaxRuns == 1
\* number of enter, exit and hart-start calls followed after init
MaxCalls == 6
\* number of enter and exit calls domains make in the index-based variant
MaxIdxCalls == 3
\* number of enter and exit calls harts make in the statement-level model
MaxStepCalls == 3
\* number of enter and exit calls harts make in the prev_dom variant
MaxPdCalls == 3

(***************************************************************************)
(* Program constants.                                                      *)
(***************************************************************************)
NULL == 0
SBI_OK == 0
SBI_EINVAL == -3
SBI_ENOMEM == -12

HartIndexes == 0 .. (NumHarts - 1)
\* a domain is named by its position in the registry, counted from 1, so that
\* no domain pointer equals NULL
Domains == 1 .. NumDomains
\* the root domain is the first domain of the registry
root == 1
\* one slot per (domain, hart) is the most the heap ever has to hold
MaxSlots == NumDomains * NumHarts
SlotPtrs == 1 .. MaxSlots
Vals == 0 .. MaxVal

\* platform table of hart ids: hart index i has hart id HartIdBase + i
HartIdBase == 16
sbi_hartindex_to_hartid(i) == HartIdBase + i
sbi_hartid_to_hartindex(hartid) == hartid - HartIdBase
HartIds == { sbi_hartindex_to_hartid(i) : i \in HartIndexes }

\* the S-mode CSRs struct sbi_context saves
CSRS == {"stvec", "sscratch", "sie", "sip", "satp"}
\* struct sbi_trap_regs: general-purpose registers, mepc and mstatus
REGS == {"a0", "a1", "mepc", "mstatus"}

\* dom->next_addr, dom->next_arg1 and dom->next_mode of the domains
next_addr == [d \in Domains |-> d % 2]
next_arg1 == [d \in Domains |-> 0]
PRV_S == 1
next_mode == [d \in Domains |-> PRV_S]

ZeroCsrs == [c \in CSRS |-> 0]
ZeroRegs == [r \in REGS |-> 0]

\* a zeroed struct sbi_context, as sbi_zalloc returns it
ZeroContext ==
    [regs |-> ZeroRegs, csr |-> ZeroCsrs, dom |-> NULL, next_ctx |-> NULL,
     initialized |-> FALSE, freed |-> 0]

\* a zeroed context of the index-based variant: struct sbi_context with the
\* C runtime context of the enter that runs it
ZeroIdxContext == [regs |-> ZeroRegs, csr |-> ZeroCsrs, c_rt_ctx |-> <<>>]

\* sbi_hart_pmp_count(scratch): the number of PMP regions of a hart
PmpCount == 2

\* the record of a hart that has no enter or exit in progress
IdleCall == [op |-> "none", pc |-> 0, i |-> 0, ctx |-> NULL, dom_ctx |-> NULL,
             swapped |-> {}]

VARIABLES
    possible_harts,             \* dom->possible_harts, per domain
    assigned_harts,             \* dom->assigned_harts, per domain
    boot_hartid,                \* dom->boot_hartid, per domain
    hartindex_to_domain,        \* the registry's hart index -> domain map
    hartindex_to_context_table, \* dom->hartindex_to_context_table[], per domain
    heap,                       \* the struct sbi_context behind each pointer
    heap_brk,                   \* number of pointers sbi_zalloc handed out
    tail,                       \* hartindex_to_tail_ctx_table[] of init
    phase,                      \* "setup" | "fail" | "failed" | "run" | "fault"
    cursor,                     \* position of init in its work list
    rc,                         \* rc of setup_domain_context / init
    pmp,                        \* per hart: the domain its PMP regions are of
    csr,                        \* per hart: the live S-mode CSRs
    trap_regs,                  \* per hart: the live trap frame under mscratch
    hart_state,                 \* per hart: "started" | "stopped" (HSM)
    runs,                       \* register changes made by S-mode software
    ncalls,                     \* enter, exit and hart-start calls made
    ev,                         \* history: the operation that ran last
    calls,                      \* history: per hart, the enters not yet exited
    reentered,                  \* history: per hart, a domain was re-entered
    startups,                   \* history: per slot, the startups made for it
    context_mgmt_enabled,       \* index variant: dom->context_mgmt_enabled
    dom_next_ctx,               \* index variant: dom->next_ctx, per domain
    idx_ctx,                    \* index variant: the context behind dom->next_ctx
    c_rt,                       \* index variant: per hart, the C runtime contexts
                                \* of the enters that have not returned
    inflight,                   \* statement level: per hart, the call in progress
    pmp_regions                 \* statement level: per hart, the domain each PMP
                                \* region is configured for, 0 when disabled

progvars == <<possible_harts, assigned_harts, boot_hartid, hartindex_to_domain,
              hartindex_to_context_table, heap, heap_brk, tail, phase, cursor,
              rc, pmp, csr, trap_regs, hart_state>>

\* the state only the index-based variant uses
idxvars == <<context_mgmt_enabled, dom_next_ctx, idx_ctx, c_rt>>

\* the state only the statement-level model of the switcher uses
stepvars == <<inflight, pmp_regions>>

vars == <<progvars, runs, ncalls, ev, calls, reentered, startups, idxvars,
          stepvars>>

(***************************************************************************)
(* Helpers over finite sets of naturals and bit vectors.                   *)
(***************************************************************************)
Min(S) == CHOOSE x \in S : \A y \in S : x <= y

RECURSIVE SortedSeq(_)
\* the elements of S in ascending order (sbi_hartmask_for_each_hartindex)
SortedSeq(S) ==
    IF S = {} THEN <<>> ELSE <<Min(S)>> \o SortedSeq(S \ {Min(S)})

RECURSIVE BitOr(_, _)
\* bitwise OR of two naturals
BitOr(a, b) ==
    IF a = 0 THEN b
    ELSE IF b = 0 THEN a
    ELSE (IF (a % 2 = 1) \/ (b % 2 = 1) THEN 1 ELSE 0)
         + 2 * BitOr(a \div 2, b \div 2)

\* the history record of an operation
Event(op, h, d, r) ==
    [op |-> op, hart |-> h, dom |-> d, rc |-> r, alloc |-> FALSE,
     tail |-> NULL, ctx |-> NULL, popped |-> <<>>, regs |-> ZeroRegs,
     csr |-> ZeroCsrs, startup |-> "none"]

(***************************************************************************)
(* sbi_context_mgmt_init                                                   *)
(***************************************************************************)
\* a variant of DomainOrder that sets the root domain up first
DomainOrderRootFirst == <<root>> \o SortedSeq(Domains \ {root})

\* sbi_domain_for_each skipping root, then root: the order init sets domains up
DomainOrder == SortedSeq(Domains \ {root}) \o <<root>>

RECURSIVE WorkFrom(_)
\* the (domain, hart index) iterations of setup_domain_context init runs,
\* in order, starting at the k-th domain of DomainOrder
WorkFrom(k) ==
    IF k > Len(DomainOrder) THEN <<>>
    ELSE LET d == DomainOrder[k]
             hs == SortedSeq(possible_harts[d])
         IN [j \in 1 .. Len(hs) |-> <<d, hs[j]>>] \o WorkFrom(k + 1)

WorkList == WorkFrom(1)

\* a variant of BootHartAssigned with the test inverted
BootHartUnassigned(d) ==
    sbi_hartid_to_hartindex(boot_hartid[d]) \notin assigned_harts[d]

\* the test of line 189: the domain's boot hart is in its assigned_harts
BootHartAssigned(d) ==
    sbi_hartid_to_hartindex(boot_hartid[d]) \in assigned_harts[d]

\* a variant of TailMissing that never rejects
TailMissingNever(t) == FALSE

\* the test of line 201: the boot-up chain of the hart has no tail yet
TailMissing(t) == t = NULL

\* a variant of LinkAfterTail with the link stored the wrong way round
LinkAfterTailReversed(hp, t, dom_ctx) == [hp EXCEPT ![dom_ctx].next_ctx = t]

\* tail->next_ctx = dom_ctx (lines 180 and 212)
LinkAfterTail(hp, t, dom_ctx) == [hp EXCEPT ![t].next_ctx = dom_ctx]

\* a variant of InstallContext that installs the slot in root's table
InstallContextInRoot(table, d, i, dom_ctx) ==
    [table EXCEPT ![root][i] = dom_ctx]

\* dom->hartindex_to_context_table[i] = dom_ctx (line 166)
InstallContext(table, d, i, dom_ctx) == [table EXCEPT ![d][i] = dom_ctx]

\* One iteration of the loop of setup_domain_context (lines 157-214) for
\* domain d and hart index i; dom_ctx is what sbi_zalloc returned.
SetupIteration(d, i, dom_ctx) ==
    LET e == [Event("setup", i, d, SBI_OK) EXCEPT
                 !.alloc = (dom_ctx # NULL), !.tail = tail[i], !.ctx = dom_ctx]
    IN
    IF dom_ctx = NULL
    THEN /\ rc' = SBI_ENOMEM
         /\ phase' = "fail"
         /\ ev' = [e EXCEPT !.rc = SBI_ENOMEM]
         /\ UNCHANGED <<heap, heap_brk, hartindex_to_context_table, tail, cursor>>
    ELSE
      LET heap1 == [heap EXCEPT ![dom_ctx] = [ZeroContext EXCEPT !.dom = d]]
          table1 == InstallContext(hartindex_to_context_table, d, i, dom_ctx)
          advance == /\ cursor' = cursor + 1
                     /\ rc' = SBI_OK
                     /\ ev' = e
                     /\ phase' = IF cursor + 1 > Len(WorkList)
                                 THEN "run" ELSE "setup"
          fail(r) == /\ rc' = r
                     /\ phase' = "fail"
                     /\ ev' = [e EXCEPT !.rc = r]
                     /\ heap' = heap1
                     /\ UNCHANGED <<tail, cursor>>
      IN /\ heap_brk' = heap_brk + 1
         /\ hartindex_to_context_table' = table1
         /\ IF i \in assigned_harts[d]
            THEN \* head of the boot-up chain of hart i
                 /\ tail' = [tail EXCEPT ![i] = dom_ctx]
                 /\ heap' = heap1
                 /\ advance
            ELSE IF d = root
            THEN \* root terminates the chain of hart i
                 IF tail[i] = NULL
                 THEN \* a store through a null pointer
                      /\ phase' = "fault"
                      /\ ev' = e
                      /\ heap' = heap1
                      /\ UNCHANGED <<tail, cursor, rc>>
                 ELSE /\ heap' = LinkAfterTail(heap1, tail[i], dom_ctx)
                      /\ tail' = tail
                      /\ advance
            ELSE IF BootHartAssigned(d)
            THEN fail(SBI_EINVAL)
            ELSE IF TailMissing(tail[i])
            THEN fail(SBI_EINVAL)
            ELSE \* append to the boot-up chain of hart i
                 /\ heap' = LinkAfterTail(heap1, tail[i], dom_ctx)
                 /\ tail' = [tail EXCEPT ![i] = dom_ctx]
                 /\ advance

\* the loop of setup_domain_context, one iteration per step; sbi_zalloc
\* returns the next unused pointer, or NULL when the heap cannot serve it
SetupStep ==
    /\ phase = "setup"
    /\ cursor <= Len(WorkList)
    /\ \E dom_ctx \in {NULL, heap_brk + 1} :
         SetupIteration(WorkList[cursor][1], WorkList[cursor][2], dom_ctx)
    /\ UNCHANGED <<possible_harts, assigned_harts, boot_hartid,
                   hartindex_to_domain, pmp, csr, trap_regs, hart_state,
                   runs, ncalls, calls, reentered, startups,
                   idxvars, stepvars>>

\* a variant of FreeCount that frees the slots in the tables of every domain
FreeCountEveryDomain(table, d, p) ==
    Cardinality({ x \in Domains \X HartIndexes :
                     x[2] \in possible_harts[x[1]] /\ table[x[1]][x[2]] = p })

\* the number of times the loop of fail_free_all (lines 220-222) passes
\* slot p to sbi_free: once for every possible hart index of d whose table
\* entry is p
FreeCount(table, d, p) ==
    Cardinality({ i \in possible_harts[d] : table[d][i] = p })

\* fail_free_all (lines 218-223) of setup_domain_context for the domain the
\* cursor is in, and the return of its rc by sbi_context_mgmt_init
FailFreeAll ==
    /\ phase = "fail"
    /\ LET d == WorkList[cursor][1]
       IN heap' = [p \in SlotPtrs |->
                     [heap[p] EXCEPT !.freed =
                        @ + FreeCount(hartindex_to_context_table, d, p)]]
    /\ phase' = "failed"
    /\ ev' = [ev EXCEPT !.op = "init_failed"]
    /\ UNCHANGED <<possible_harts, assigned_harts, boot_hartid,
                   hartindex_to_domain, hartindex_to_context_table,
                   heap_brk, tail, cursor, rc, pmp, csr, trap_regs,
                   hart_state, runs, ncalls, calls, reentered, startups,
                   idxvars, stepvars>>

(***************************************************************************)
(* The switcher                                                            *)
(***************************************************************************)
\* sbi_hartindex_to_dom_context(hartindex, dom)
sbi_hartindex_to_dom_context(i, d) == hartindex_to_context_table[d][i]

\* a variant of sbi_context_thishart_ptr that indexes the table of the
\* current domain with hart index 0
sbi_context_hart0_ptr(h) ==
    sbi_hartindex_to_dom_context(0, hartindex_to_domain[h])

\* sbi_context_thishart_ptr() on hart index h
sbi_context_thishart_ptr(h) ==
    sbi_hartindex_to_dom_context(h, hartindex_to_domain[h])

\* current_hartid() on hart index h
current_hartid(h) == sbi_hartindex_to_hartid(h)

\* a variant of AssignHartindex that leaves the hart's bit set in the domain
\* it leaves
AssignHartindexNoClear(masks, map, i, d) ==
    [masks |-> [masks EXCEPT ![d] = @ \cup {i}],
     map |-> [map EXCEPT ![i] = d]]

\* Reassignment of hart index i to domain d: the hart's bit is cleared in the
\* domain it is in, the hart index -> domain map is updated and the bit is
\* set in d.  The result is the pair of the new masks and the new map.
AssignHartindex(masks, map, i, d) ==
    LET cleared == [masks EXCEPT ![map[i]] = @ \ {i}]
    IN [masks |-> [cleared EXCEPT ![d] = @ \cup {i}],
        map |-> [map EXCEPT ![i] = d]]

\* sbi_domain_assign_hart(dom, hartid)
sbi_domain_assign_hart(masks, map, d, hartid) ==
    AssignHartindex(masks, map, sbi_hartid_to_hartindex(hartid), d)

\* pmp_disable on every region, then sbi_hart_pmp_configure(scratch): the
\* PMP regions of the domain the map names for the hart
sbi_hart_pmp_configure(map, h) == map[h]

\* a variant of SwitchPmp that configures the PMP before the hart is
\* reassigned
SwitchPmpStale(old_map, new_map, h) == sbi_hart_pmp_configure(old_map, h)

\* the PMP the switcher leaves (lines 32-40): the hart is reassigned first,
\* then the regions are disabled and configured from the map
SwitchPmp(old_map, new_map, h) == sbi_hart_pmp_configure(new_map, h)

\* csr_read_set(csr, val), the csrrs instruction: the CSR's old value is
\* returned and the bits of val are set in the CSR
csr_read_set(old, val) == [ret |-> old, new |-> BitOr(old, val)]

\* a variant of SaveTrapRegs that does not save the outgoing frame
SaveTrapRegsSkipped(hp, ctx, live) == hp

\* the slot a trap frame is saved into: sbi_memcpy(&ctx->regs, trap_regs)
SaveTrapRegs(hp, ctx, live) == [hp EXCEPT ![ctx].regs = live]

\* the trap frame loaded from a slot: sbi_memcpy(trap_regs, &dom_ctx->regs)
LoadTrapRegs(hp, dom_ctx) == hp[dom_ctx].regs

\* switch_to_next_domain_context(ctx, dom_ctx) on hart index h, from heap hp:
\* the new masks, map, PMP, live CSRs, live trap frame and heap
switch_to_next_domain_context(hp, h, ctx, dom_ctx) ==
    LET asg == sbi_domain_assign_hart(assigned_harts, hartindex_to_domain,
                                      hp[dom_ctx].dom, current_hartid(h))
        swap == [c \in CSRS |-> csr_read_set(csr[h][c], hp[dom_ctx].csr[c])]
        hp1 == [hp EXCEPT ![ctx].csr = [c \in CSRS |-> swap[c].ret]]
        hp2 == SaveTrapRegs(hp1, ctx, trap_regs[h])
    IN [masks |-> asg.masks,
        map |-> asg.map,
        pmp |-> SwitchPmp(hartindex_to_domain, asg.map, h),
        csr |-> [c \in CSRS |-> swap[c].new],
        regs |-> LoadTrapRegs(hp2, dom_ctx),
        heap |-> hp2]

(***************************************************************************)
(* sbi_context_domain_enter                                                *)
(***************************************************************************)
\* a variant of MarkInitialized that flips the flag
MarkInitializedFlipped(hp, ctx) ==
    [hp EXCEPT ![ctx].initialized = ~hp[ctx].initialized]

\* ctx->initialized = true (lines 67 and 126)
MarkInitialized(hp, ctx) == [hp EXCEPT ![ctx].initialized = TRUE]

\* a variant of EnterInvalid that does not test the initialized flag
EnterInvalidNullOnly(dom_ctx) == dom_ctx = NULL

\* the validation of line 63
EnterInvalid(dom_ctx) == dom_ctx = NULL \/ ~heap[dom_ctx].initialized

\* a variant of RecordCaller that leaves the target's link as it was
RecordCallerSkipped(hp, dom_ctx, ctx) == hp

\* dom_ctx->next_ctx = ctx (line 72)
RecordCaller(hp, dom_ctx, ctx) == [hp EXCEPT ![dom_ctx].next_ctx = ctx]

\* the outstanding enters st of a hart after the callee of its innermost one
\* got control back from an enter of its own
Returned(st) ==
    IF st = <<>> THEN st
    ELSE [st EXCEPT ![Len(st)].nested = @ + 1]

\* the slots that have an enter outstanding on hart h: callers and callees
Outstanding(h) ==
    { calls[h][k].caller : k \in 1 .. Len(calls[h]) }
      \cup { calls[h][k].target : k \in 1 .. Len(calls[h]) }

Enter(h, d) ==
    /\ phase = "run"
    /\ hart_state[h] = "started"
    /\ ncalls < MaxCalls
    /\ LET ctx == sbi_context_thishart_ptr(h)
           dom_ctx == sbi_hartindex_to_dom_context(h, d)
       IN IF EnterInvalid(dom_ctx)
          THEN /\ ev' = Event("enter", h, d, SBI_EINVAL)
               /\ UNCHANGED <<progvars, calls, reentered, startups>>
          ELSE IF ctx = NULL
          THEN \* a store through a null pointer
               /\ phase' = "fault"
               /\ ev' = Event("enter", h, d, SBI_OK)
               /\ UNCHANGED <<possible_harts, assigned_harts, boot_hartid,
                              hartindex_to_domain, hartindex_to_context_table,
                              heap, heap_brk, tail, cursor, rc, pmp, csr,
                              trap_regs, hart_state, calls, reentered, startups>>
          ELSE
            LET hp0 == MarkInitialized(heap, ctx)
                sw == switch_to_next_domain_context(hp0, h, ctx, dom_ctx)
            IN /\ heap' = RecordCaller(sw.heap, dom_ctx, ctx)
               /\ assigned_harts' = sw.masks
               /\ hartindex_to_domain' = sw.map
               /\ pmp' = [pmp EXCEPT ![h] = sw.pmp]
               /\ csr' = [csr EXCEPT ![h] = sw.csr]
               /\ trap_regs' = [trap_regs EXCEPT ![h] = sw.regs]
               /\ ev' = [Event("enter", h, d, SBI_OK) EXCEPT !.ctx = ctx]
               /\ calls' = [calls EXCEPT ![h] =
                              Append(@, [caller |-> ctx, target |-> dom_ctx,
                                         csr |-> csr[h],
                                         regs |-> trap_regs[h],
                                         nested |-> 0])]
               /\ reentered' = [reentered EXCEPT ![h] =
                                  @ \/ dom_ctx = ctx
                                    \/ dom_ctx \in Outstanding(h)]
               /\ startups' = startups
               /\ UNCHANGED <<possible_harts, boot_hartid,
                              hartindex_to_context_table, heap_brk, tail,
                              phase, cursor, rc, hart_state>>
    /\ ncalls' = ncalls + 1
    /\ UNCHANGED <<runs, idxvars, stepvars>>

(***************************************************************************)
(* startup_next_domain_context and its collaborators                       *)
(***************************************************************************)
\* the trap frame of a hart that enters domain d for the first time:
\* a0 is the hart id, a1 is next_arg1, mepc is next_addr, mstatus.MPP is
\* next_mode
StartRegs(d, hartid) ==
    [r \in REGS |-> CASE r = "a0" -> hartid
                      [] r = "a1" -> next_arg1[d]
                      [] r = "mepc" -> next_addr[d]
                      [] OTHER -> next_mode[d]]

\* the S-mode CSRs sbi_hart_switch_mode leaves: stvec is the entry address,
\* sscratch, sie and satp are cleared, sip is kept
StartCsrs(d, old) ==
    [c \in CSRS |-> CASE c = "stvec" -> next_addr[d]
                      [] c = "sip" -> old[c]
                      [] OTHER -> 0]

\* the loop of lines 94-98: some possible hart of the domain is unassigned
SomePossibleHartUnassigned(masks, d) ==
    \E i \in possible_harts[d] : i \notin masks[d]

\* a variant of StartupOutcome that tests for the boot hart before it tests
\* the assignment of the possible harts
StartupOutcomeBootFirst(masks, h, d) ==
    IF current_hartid(h) = boot_hartid[d] THEN "jump"
    ELSE IF \E i \in possible_harts[d] : i \notin masks[d] THEN "park"
    ELSE "handoff"

\* The outcome of startup_next_domain_context(dom_ctx) on hart index h, with
\* masks the assigned_harts after the switch: "park" (hart stopped because a
\* possible hart is unassigned), "handoff" (hart_start of the boot hart, then
\* hart stopped) or "jump" (mode switch into the domain).
StartupOutcome(masks, h, d) ==
    IF SomePossibleHartUnassigned(masks, d) THEN "park"
    ELSE IF current_hartid(h) # boot_hartid[d] THEN "handoff"
    ELSE "jump"

\* sbi_hsm_hart_start(scratch, dom, hartid, ...) succeeds on a stopped hart
\* of the domain
HsmStartAllowed(masks, d, i) == i \in masks[d] /\ hart_state[i] = "stopped"

(***************************************************************************)
(* sbi_context_domain_exit                                                 *)
(***************************************************************************)
\* a variant of NeedsStartup that always takes the trap-return path
NeedsStartupNever(hp, dom_ctx) == FALSE

\* the test of line 130: the successor was never saved, so it is started up
NeedsStartup(hp, dom_ctx) == ~hp[dom_ctx].initialized

\* a variant of ExitInvalid that also rejects a successor never saved
ExitInvalidUninit(dom_ctx) == dom_ctx = NULL \/ ~heap[dom_ctx].initialized

\* the validation of line 122
ExitInvalid(dom_ctx) == dom_ctx = NULL

Exit(h) ==
    /\ phase = "run"
    /\ hart_state[h] = "started"
    /\ ncalls < MaxCalls
    /\ LET ctx == sbi_context_thishart_ptr(h) IN
       IF ctx = NULL
       THEN \* a load through a null pointer
            /\ phase' = "fault"
            /\ ev' = Event("exit", h, NULL, SBI_OK)
            /\ UNCHANGED <<possible_harts, assigned_harts, boot_hartid,
                           hartindex_to_domain, hartindex_to_context_table,
                           heap, heap_brk, tail, cursor, rc, pmp, csr,
                           trap_regs, hart_state, calls, reentered, startups>>
       ELSE
       LET dom_ctx == heap[ctx].next_ctx IN
       IF ExitInvalid(dom_ctx)
       THEN /\ ev' = [Event("exit", h, NULL, SBI_EINVAL) EXCEPT !.ctx = ctx]
            /\ UNCHANGED <<progvars, calls, reentered, startups>>
       ELSE
         LET hp0 == MarkInitialized(heap, ctx)
             sw == switch_to_next_domain_context(hp0, h, ctx, dom_ctx)
             d == hp0[dom_ctx].dom
             matched == /\ calls[h] # <<>>
                        /\ calls[h][Len(calls[h])].target = ctx
             e == [Event("exit", h, d, SBI_OK) EXCEPT
                     !.ctx = ctx, !.regs = trap_regs[h], !.csr = csr[h],
                     !.popped = IF matched
                                THEN <<calls[h][Len(calls[h])]>> ELSE <<>>]
         IN /\ heap' = sw.heap
            /\ assigned_harts' = sw.masks
            /\ hartindex_to_domain' = sw.map
            /\ pmp' = [pmp EXCEPT ![h] = sw.pmp]
            /\ calls' = [calls EXCEPT ![h] =
                           IF matched THEN Returned(SubSeq(@, 1, Len(@) - 1))
                           ELSE @]
            /\ IF ~NeedsStartup(sw.heap, dom_ctx)
               THEN \* return 0 to the trap-return path
                    /\ csr' = [csr EXCEPT ![h] = sw.csr]
                    /\ trap_regs' = [trap_regs EXCEPT ![h] = sw.regs]
                    /\ hart_state' = hart_state
                    /\ ev' = e
               ELSE
                 LET outcome == StartupOutcome(sw.masks, h, d)
                     b == sbi_hartid_to_hartindex(boot_hartid[d])
                 IN /\ ev' = [e EXCEPT !.startup = outcome]
                    /\ CASE outcome = "park" ->
                              /\ hart_state' = [hart_state EXCEPT ![h] = "stopped"]
                              /\ csr' = [csr EXCEPT ![h] = sw.csr]
                              /\ trap_regs' = [trap_regs EXCEPT ![h] = sw.regs]
                         [] outcome = "handoff" ->
                              IF HsmStartAllowed(sw.masks, d, b)
                              THEN /\ hart_state' = [hart_state EXCEPT
                                          ![b] = "started", ![h] = "stopped"]
                                   /\ csr' = [csr EXCEPT ![h] = sw.csr,
                                          ![b] = StartCsrs(d, csr[b])]
                                   /\ trap_regs' = [trap_regs EXCEPT
                                          ![h] = sw.regs,
                                          ![b] = StartRegs(d, boot_hartid[d])]
                              ELSE /\ hart_state' = [hart_state EXCEPT ![h] = "stopped"]
                                   /\ csr' = [csr EXCEPT ![h] = sw.csr]
                                   /\ trap_regs' = [trap_regs EXCEPT ![h] = sw.regs]
                         [] OTHER ->
                              /\ hart_state' = hart_state
                              /\ csr' = [csr EXCEPT ![h] = StartCsrs(d, sw.csr)]
                              /\ trap_regs' = [trap_regs EXCEPT
                                     ![h] = StartRegs(d, boot_hartid[d])]
            /\ startups' = IF ~NeedsStartup(sw.heap, dom_ctx) THEN startups
                            ELSE [startups EXCEPT ![dom_ctx] = @ + 1]
            /\ UNCHANGED <<possible_harts, boot_hartid,
                           hartindex_to_context_table, heap_brk, tail,
                           phase, cursor, rc, reentered>>
    /\ ncalls' = ncalls + 1
    /\ UNCHANGED <<runs, idxvars, stepvars>>

(***************************************************************************)
(* The environment: S-mode software of the domain running on a hart.       *)
(***************************************************************************)
\* the domain on hart h writes an S-mode CSR
WriteCsr(h) ==
    /\ phase = "run"
    /\ hart_state[h] = "started"
    /\ runs < MaxRuns
    /\ \E c \in CSRS, v \in Vals :
         /\ csr[h][c] # v
         /\ csr' = [csr EXCEPT ![h][c] = v]
    /\ runs' = runs + 1
    /\ ev' = Event("run", h, hartindex_to_domain[h], SBI_OK)
    /\ UNCHANGED <<possible_harts, assigned_harts, boot_hartid,
                   hartindex_to_domain, hartindex_to_context_table, heap,
                   heap_brk, tail, phase, cursor, rc, pmp, trap_regs,
                   hart_state, ncalls, calls, reentered, startups,
                   idxvars, stepvars>>

\* the domain on hart h traps with a changed register in its trap frame
WriteReg(h) ==
    /\ phase = "run"
    /\ hart_state[h] = "started"
    /\ runs < MaxRuns
    /\ \E r \in REGS, v \in Vals :
         /\ trap_regs[h][r] # v
         /\ trap_regs' = [trap_regs EXCEPT ![h][r] = v]
    /\ runs' = runs + 1
    /\ ev' = Event("run", h, hartindex_to_domain[h], SBI_OK)
    /\ UNCHANGED <<possible_harts, assigned_harts, boot_hartid,
                   hartindex_to_domain, hartindex_to_context_table, heap,
                   heap_brk, tail, phase, cursor, rc, pmp, csr,
                   hart_state, ncalls, calls, reentered, startups,
                   idxvars, stepvars>>

\* the domain on hart h starts a stopped hart t of its own through the HSM
\* extension; t comes up in the domain with a fresh trap frame
HsmHartStart(h, t) ==
    /\ phase = "run"
    /\ hart_state[h] = "started"
    /\ ncalls < MaxCalls
    /\ HsmStartAllowed(assigned_harts, hartindex_to_domain[h], t)
    /\ ncalls' = ncalls + 1
    /\ hart_state' = [hart_state EXCEPT ![t] = "started"]
    /\ trap_regs' = [trap_regs EXCEPT
           ![t] = StartRegs(hartindex_to_domain[h], current_hartid(t))]
    /\ csr' = [csr EXCEPT ![t] = StartCsrs(hartindex_to_domain[h], csr[t])]
    /\ calls' = [calls EXCEPT ![t] = <<>>]
    /\ ev' = Event("hart_start", t, hartindex_to_domain[h], SBI_OK)
    /\ UNCHANGED <<possible_harts, assigned_harts, boot_hartid,
                   hartindex_to_domain, hartindex_to_context_table, heap,
                   heap_brk, tail, phase, cursor, rc, pmp, runs, reentered, startups,
                   idxvars, stepvars>>

(***************************************************************************)
(* The switcher statement by statement.  A hart that called enter or exit  *)
(* runs the statements of switch_to_next_domain_context one at a time, and *)
(* the statements of the harts interleave.                                 *)
(***************************************************************************)
\* a variant of SwitchStatements that exchanges the CSRs and the trap frame
\* before it touches the PMP
SwitchStatementsCsrFirst ==
    <<"clear", "map", "set",
      "stvec", "sscratch", "sie", "sip", "satp", "save_regs", "load_regs",
      "pmp_disable", "pmp_configure">>

\* The statements of switch_to_next_domain_context in program order: the
\* reassignment (bit cleared in the old domain, map updated, bit set in the
\* new domain), the pmp_disable loop, sbi_hart_pmp_configure, the five
\* csr_read_set exchanges and the two copies of the trap frame.
SwitchStatements ==
    <<"clear", "map", "set",
      "pmp_disable", "pmp_configure",
      "stvec", "sscratch", "sie", "sip", "satp", "save_regs", "load_regs">>

\* the places of a hart inside startup_next_domain_context: the loop over the
\* possible harts (lines 94-98), the hart_start of the boot hart (lines
\* 101-108), a pending hart_stop (lines 97 and 110) and the mode switch
\* (line 113)
StartupLoop == "loop"
StartupHandoff == "hart_start"
StartupStop == "hart_stop"
StartupSwitchMode == "switch_mode"

\* sbi_hartmask_clear_hartindex(i, &dom->assigned_harts), atomic in the bit
hartmask_clear_hartindex(masks, d, i) == [masks EXCEPT ![d] = @ \ {i}]

\* sbi_hartmask_set_hartindex(i, &dom->assigned_harts), atomic in the bit
hartmask_set_hartindex(masks, d, i) == [masks EXCEPT ![d] = @ \cup {i}]

\* the call record of a hart that is about to run the switcher
BeginCall(op, ctx, dom_ctx) ==
    [op |-> op, pc |-> 1, i |-> 1, ctx |-> ctx, dom_ctx |-> dom_ctx,
     swapped |-> {}]

\* sbi_context_domain_enter up to the call of the switcher (lines 56-69)
StepEnter(h, d) ==
    /\ phase = "run"
    /\ hart_state[h] = "started"
    /\ inflight[h].op = "none"
    /\ ncalls < MaxStepCalls
    /\ LET ctx == sbi_context_thishart_ptr(h)
           dom_ctx == sbi_hartindex_to_dom_context(h, d)
       IN IF EnterInvalid(dom_ctx)
          THEN /\ ev' = Event("step_enter", h, d, SBI_EINVAL)
               /\ UNCHANGED <<heap, inflight, phase>>
          ELSE IF ctx = NULL
          THEN /\ phase' = "fault"
               /\ ev' = Event("step_enter", h, d, SBI_OK)
               /\ UNCHANGED <<heap, inflight>>
          ELSE /\ heap' = MarkInitialized(heap, ctx)
               /\ inflight' = [inflight EXCEPT ![h] = BeginCall("enter", ctx, dom_ctx)]
               /\ ev' = [Event("step_enter", h, d, SBI_OK) EXCEPT !.ctx = ctx]
               /\ phase' = phase
    /\ ncalls' = ncalls + 1
    /\ UNCHANGED <<possible_harts, assigned_harts, boot_hartid,
                   hartindex_to_domain, hartindex_to_context_table, heap_brk,
                   tail, cursor, rc, pmp, csr, trap_regs, hart_state, runs,
                   calls, reentered, startups, idxvars, pmp_regions>>

\* sbi_context_domain_exit up to the call of the switcher (lines 117-128)
StepExit(h) ==
    /\ phase = "run"
    /\ hart_state[h] = "started"
    /\ inflight[h].op = "none"
    /\ ncalls < MaxStepCalls
    /\ LET ctx == sbi_context_thishart_ptr(h) IN
       IF ctx = NULL
       THEN /\ phase' = "fault"
            /\ ev' = Event("step_exit", h, NULL, SBI_OK)
            /\ UNCHANGED <<heap, inflight>>
       ELSE LET dom_ctx == heap[ctx].next_ctx IN
            IF ExitInvalid(dom_ctx)
            THEN /\ ev' = [Event("step_exit", h, NULL, SBI_EINVAL) EXCEPT !.ctx = ctx]
                 /\ UNCHANGED <<heap, inflight, phase>>
            ELSE /\ heap' = MarkInitialized(heap, ctx)
                 /\ inflight' = [inflight EXCEPT ![h] = BeginCall("exit", ctx, dom_ctx)]
                 /\ ev' = [Event("step_exit", h, heap[dom_ctx].dom, SBI_OK)
                             EXCEPT !.ctx = ctx]
                 /\ phase' = phase
    /\ ncalls' = ncalls + 1
    /\ UNCHANGED <<possible_harts, assigned_harts, boot_hartid,
                   hartindex_to_domain, hartindex_to_context_table, heap_brk,
                   tail, cursor, rc, pmp, csr, trap_regs, hart_state, runs,
                   calls, reentered, startups, idxvars, pmp_regions>>

\* hart h runs the next statement of switch_to_next_domain_context
SwitchStatement(h) ==
    /\ phase = "run"
    /\ inflight[h].op \in {"enter", "exit"}
    /\ inflight[h].pc <= Len(SwitchStatements)
    /\ LET c == inflight[h]
           s == SwitchStatements[c.pc]
           ctx == c.ctx
           dom_ctx == c.dom_ctx
           d == heap[dom_ctx].dom
           looping == s = "pmp_disable" /\ c.i < PmpCount
           x == IF s \in CSRS
                THEN csr_read_set(csr[h][s], heap[dom_ctx].csr[s])
                ELSE csr_read_set(0, 0)
       IN /\ assigned_harts' =
               CASE s = "clear" ->
                      hartmask_clear_hartindex(assigned_harts,
                                               hartindex_to_domain[h], h)
                 [] s = "set" -> hartmask_set_hartindex(assigned_harts, d, h)
                 [] OTHER -> assigned_harts
          /\ hartindex_to_domain' =
               IF s = "map" THEN [hartindex_to_domain EXCEPT ![h] = d]
               ELSE hartindex_to_domain
          /\ pmp_regions' =
               CASE s = "pmp_disable" -> [pmp_regions EXCEPT ![h][c.i] = 0]
                 [] s = "pmp_configure" ->
                      [pmp_regions EXCEPT ![h] =
                         [n \in 1 .. PmpCount |->
                            sbi_hart_pmp_configure(hartindex_to_domain, h)]]
                 [] OTHER -> pmp_regions
          /\ pmp' = IF s = "pmp_configure"
                    THEN [pmp EXCEPT ![h] =
                            sbi_hart_pmp_configure(hartindex_to_domain, h)]
                    ELSE pmp
          /\ csr' = IF s \in CSRS THEN [csr EXCEPT ![h][s] = x.new] ELSE csr
          /\ heap' =
               CASE s \in CSRS -> [heap EXCEPT ![ctx].csr[s] = x.ret]
                 [] s = "save_regs" -> SaveTrapRegs(heap, ctx, trap_regs[h])
                 [] OTHER -> heap
          /\ trap_regs' =
               IF s = "load_regs"
               THEN [trap_regs EXCEPT ![h] = LoadTrapRegs(heap, dom_ctx)]
               ELSE trap_regs
          /\ inflight' = [inflight EXCEPT ![h] =
               [c EXCEPT !.pc = IF looping THEN c.pc ELSE c.pc + 1,
                         !.i = IF looping THEN c.i + 1 ELSE 1,
                         !.swapped = IF s \in CSRS \cup {"load_regs"}
                                     THEN @ \cup {s} ELSE @]]
          /\ ev' = [Event("statement", h, d, SBI_OK) EXCEPT
                      !.ctx = ctx, !.startup = s]
    /\ UNCHANGED <<possible_harts, boot_hartid, hartindex_to_context_table,
                   heap_brk, tail, phase, cursor, rc, hart_state, runs, ncalls,
                   calls, reentered, startups, idxvars>>

\* sbi_context_domain_enter after the switcher (lines 71-74)
StepEnterReturn(h) ==
    /\ phase = "run"
    /\ inflight[h].op = "enter"
    /\ inflight[h].pc > Len(SwitchStatements)
    /\ heap' = RecordCaller(heap, inflight[h].dom_ctx, inflight[h].ctx)
    /\ inflight' = [inflight EXCEPT ![h] = IdleCall]
    /\ ev' = [Event("step_return", h, heap[inflight[h].dom_ctx].dom, SBI_OK)
                EXCEPT !.ctx = inflight[h].ctx]
    /\ UNCHANGED <<possible_harts, assigned_harts, boot_hartid,
                   hartindex_to_domain, hartindex_to_context_table, heap_brk,
                   tail, phase, cursor, rc, pmp, csr, trap_regs, hart_state,
                   runs, ncalls, calls, reentered, startups, idxvars,
                   pmp_regions>>

\* sbi_context_domain_exit after the switcher (lines 130-136): the return to
\* the trap-return path, or the call of startup_next_domain_context
StepExitReturn(h) ==
    /\ phase = "run"
    /\ inflight[h].op = "exit"
    /\ inflight[h].pc > Len(SwitchStatements)
    /\ LET dom_ctx == inflight[h].dom_ctx
           d == heap[dom_ctx].dom
       IN IF ~NeedsStartup(heap, dom_ctx)
          THEN /\ inflight' = [inflight EXCEPT ![h] = IdleCall]
               /\ ev' = [Event("step_return", h, d, SBI_OK) EXCEPT
                           !.ctx = inflight[h].ctx]
          ELSE /\ inflight' = [inflight EXCEPT ![h] =
                     [@ EXCEPT !.op = "startup", !.pc = StartupLoop, !.i = 1]]
               /\ ev' = [Event("step_return", h, d, SBI_OK) EXCEPT
                           !.ctx = inflight[h].ctx, !.startup = "startup"]
    /\ UNCHANGED <<possible_harts, assigned_harts, boot_hartid,
                   hartindex_to_domain, hartindex_to_context_table, heap,
                   heap_brk, tail, phase, cursor, rc, pmp, csr, trap_regs,
                   hart_state, runs, ncalls, calls, reentered, startups,
                   idxvars, pmp_regions>>

\* One iteration of the loop of startup_next_domain_context (lines 94-98) on
\* hart h: the test of the assigned_harts bit of the next possible hart of
\* the domain; after the last one, the test of line 101.
StartupCheck(h) ==
    /\ phase = "run"
    /\ inflight[h].op = "startup"
    /\ inflight[h].pc = StartupLoop
    /\ LET d == heap[inflight[h].dom_ctx].dom
           harts == SortedSeq(possible_harts[d])
           i == inflight[h].i
           next == IF i > Len(harts)
                   THEN IF current_hartid(h) # boot_hartid[d]
                        THEN StartupHandoff ELSE StartupSwitchMode
                   ELSE IF harts[i] \notin assigned_harts[d]
                   THEN StartupStop ELSE StartupLoop
       IN /\ inflight' = [inflight EXCEPT ![h] =
                [@ EXCEPT !.pc = next,
                          !.i = IF next = StartupLoop THEN i + 1 ELSE i]]
          /\ ev' = [Event("startup", h, d, SBI_OK) EXCEPT
                      !.ctx = inflight[h].ctx,
                      !.startup = IF next = StartupStop THEN "park" ELSE "check"]
    /\ UNCHANGED <<possible_harts, assigned_harts, boot_hartid,
                   hartindex_to_domain, hartindex_to_context_table, heap,
                   heap_brk, tail, phase, cursor, rc, pmp, csr, trap_regs,
                   hart_state, runs, ncalls, calls, reentered, startups,
                   idxvars, pmp_regions>>

\* sbi_hsm_hart_start of the boot hart by hart h (lines 102-108); a failure
\* is only printed
StartupHartStart(h) ==
    /\ phase = "run"
    /\ inflight[h].op = "startup"
    /\ inflight[h].pc = StartupHandoff
    /\ LET d == heap[inflight[h].dom_ctx].dom
           b == sbi_hartid_to_hartindex(boot_hartid[d])
           ok == HsmStartAllowed(assigned_harts, d, b)
       IN /\ hart_state' = IF ok THEN [hart_state EXCEPT ![b] = "started"]
                           ELSE hart_state
          /\ csr' = IF ok THEN [csr EXCEPT ![b] = StartCsrs(d, csr[b])] ELSE csr
          /\ trap_regs' = IF ok
                          THEN [trap_regs EXCEPT ![b] = StartRegs(d, boot_hartid[d])]
                          ELSE trap_regs
          /\ ev' = [Event("startup", h, d, IF ok THEN SBI_OK ELSE SBI_EINVAL)
                      EXCEPT !.ctx = inflight[h].ctx, !.startup = "handoff"]
    /\ inflight' = [inflight EXCEPT ![h].pc = StartupStop]
    /\ UNCHANGED <<possible_harts, assigned_harts, boot_hartid,
                   hartindex_to_domain, hartindex_to_context_table, heap,
                   heap_brk, tail, phase, cursor, rc, pmp, runs, ncalls, calls,
                   reentered, startups, idxvars, pmp_regions>>

\* sbi_hsm_hart_stop(scratch, true) on hart h (lines 97 and 110): the hart
\* becomes stopped
StartupHartStop(h) ==
    /\ phase = "run"
    /\ inflight[h].op = "startup"
    /\ inflight[h].pc = StartupStop
    /\ hart_state' = [hart_state EXCEPT ![h] = "stopped"]
    /\ inflight' = [inflight EXCEPT ![h] = IdleCall]
    /\ ev' = [Event("startup", h, heap[inflight[h].dom_ctx].dom, SBI_OK) EXCEPT
                !.ctx = inflight[h].ctx, !.startup = "stop"]
    /\ UNCHANGED <<possible_harts, assigned_harts, boot_hartid,
                   hartindex_to_domain, hartindex_to_context_table, heap,
                   heap_brk, tail, phase, cursor, rc, pmp, csr, trap_regs,
                   runs, ncalls, calls, reentered, startups, idxvars,
                   pmp_regions>>

\* sbi_hart_switch_mode on the boot hart h (lines 113-114)
StartupJump(h) ==
    /\ phase = "run"
    /\ inflight[h].op = "startup"
    /\ inflight[h].pc = StartupSwitchMode
    /\ LET d == heap[inflight[h].dom_ctx].dom
       IN /\ csr' = [csr EXCEPT ![h] = StartCsrs(d, csr[h])]
          /\ trap_regs' = [trap_regs EXCEPT ![h] = StartRegs(d, boot_hartid[d])]
          /\ ev' = [Event("startup", h, d, SBI_OK) EXCEPT
                      !.ctx = inflight[h].ctx, !.startup = "jump"]
    /\ inflight' = [inflight EXCEPT ![h] = IdleCall]
    /\ UNCHANGED <<possible_harts, assigned_harts, boot_hartid,
                   hartindex_to_domain, hartindex_to_context_table, heap,
                   heap_brk, tail, phase, cursor, rc, pmp, hart_state, runs,
                   ncalls, calls, reentered, startups, idxvars, pmp_regions>>

(***************************************************************************)
(* The index-based variant (lib/sbi/sbi_context_mgmt.c): a domain has one  *)
(* context, dom->next_ctx, and enter is synchronous: it returns when the   *)
(* entered domain calls exit.                                              *)
(***************************************************************************)
SBI_DOMAIN_MAX_INDEX == 32

\* the hart that runs sbi_context_mgmt_init
ColdBootHart == 0

\* the state only the next_ctx variant uses
nextctxvars == <<possible_harts, boot_hartid, hartindex_to_context_table,
                 heap, heap_brk, tail, hart_state, calls, reentered, startups>>

\* the domain indexes enter is called with: the registered ones, an
\* unregistered one, and two that are out of range
EnterIndexes ==
    Domains \cup {NumDomains + 1, SBI_DOMAIN_MAX_INDEX, SBI_DOMAIN_MAX_INDEX + 1}

\* sbi_index_to_domain(index): the values the lookup can yield; an index that
\* is out of range reads past the table and yields any value
sbi_index_to_domain(k) ==
    IF k >= SBI_DOMAIN_MAX_INDEX THEN {NULL} \cup Domains
    ELSE IF k \in Domains THEN {k}
    ELSE {NULL}

\* csr_swap(csr, val), the csrrw instruction
csr_swap(old, val) == [ret |-> old, new |-> val]

\* a variant of IdxEnterInvalid that does not test context_mgmt_enabled
IdxEnterInvalidNoEnabledTest(k, dom) ==
    \/ SBI_DOMAIN_MAX_INDEX <= k
    \/ dom = NULL
    \/ dom_next_ctx[dom] = NULL

\* the validation of lines 27-28
IdxEnterInvalid(k, dom) ==
    \/ SBI_DOMAIN_MAX_INDEX <= k
    \/ dom = NULL
    \/ ~context_mgmt_enabled[dom]
    \/ dom_next_ctx[dom] = NULL

\* S-mode software runs on hart h: the hart is not inside
\* sbi_context_mgmt_init
RunsDomain(h) ==
    \/ phase = "idx"
    \/ phase = "idx_init" /\ (h # ColdBootHart \/ c_rt[h] # <<>>)

\* Lines 31-49 of sbi_context_domain_enter on hart h for domain dom, from the
\* contexts ic: the hart is assigned to dom, the PMP is reconfigured, the
\* CSRs are swapped with those of dom->next_ctx and
\* cpu_lowlevel_context_enter saves the C runtime context and resumes the
\* domain from ctx->regs.  from is "init" or "ecall", the caller of enter.
IdxSwitchIn(ic, h, dom, from) ==
    LET asg == sbi_domain_assign_hart(assigned_harts, hartindex_to_domain,
                                      dom, current_hartid(h))
        ctx == dom_next_ctx[dom]
        swap == [c \in CSRS |-> csr_swap(csr[h][c], ic[ctx].csr[c])]
        frame == [tdom |-> hartindex_to_domain[h], regs |-> trap_regs[h],
                  from |-> from]
    IN /\ assigned_harts' = asg.masks
       /\ hartindex_to_domain' = asg.map
       /\ pmp' = [pmp EXCEPT ![h] = SwitchPmp(hartindex_to_domain, asg.map, h)]
       /\ csr' = [csr EXCEPT ![h] = [c \in CSRS |-> swap[c].new]]
       /\ trap_regs' = [trap_regs EXCEPT ![h] = ic[ctx].regs]
       /\ c_rt' = [c_rt EXCEPT ![h] = Append(@, frame)]
       /\ idx_ctx' = [ic EXCEPT
                        ![ctx].csr = [c \in CSRS |-> swap[c].ret],
                        ![ctx].c_rt_ctx = <<h, Len(c_rt[h]) + 1>>]

\* sbi_context_domain_enter(domain_index) called by the domain on hart h
IdxDomainEnter(h, k) ==
    /\ RunsDomain(h)
    /\ ncalls < MaxIdxCalls
    /\ ncalls' = ncalls + 1
    /\ \E dom \in sbi_index_to_domain(k) :
         IF IdxEnterInvalid(k, dom)
         THEN /\ ev' = Event("idx_enter", h, k, SBI_EINVAL)
              /\ UNCHANGED <<assigned_harts, hartindex_to_domain, pmp, csr,
                             trap_regs, idx_ctx, c_rt>>
         ELSE /\ ev' = Event("idx_enter", h, k, SBI_OK)
              /\ IdxSwitchIn(idx_ctx, h, dom, "ecall")
    /\ UNCHANGED <<nextctxvars, stepvars, context_mgmt_enabled, dom_next_ctx, phase,
                   cursor, rc, runs>>

\* the frame sbi_context_domain_exit saves (lines 71-84): the live trap frame
\* with a0 = SBI_SUCCESS, a1 = 0 and mepc moved past the ecall
IdxSavedFrame(live) ==
    [live EXCEPT !["a0"] = 0, !["a1"] = 0, !["mepc"] = @ + 4]

\* the values a domain passes to sbi_context_domain_exit
ExitCodes == {0, 1}

\* sbi_context_domain_exit(r) called by the domain on hart h, and the rest of
\* the enter it returns into (lines 51-60)
IdxDomainExit(h, r) ==
    /\ RunsDomain(h)
    /\ ncalls < MaxIdxCalls
    /\ ncalls' = ncalls + 1
    /\ LET dom == hartindex_to_domain[h]
           ctx == dom_next_ctx[dom]
       IN IF ~context_mgmt_enabled[dom] \/ ctx = NULL
          THEN \* lines 68-69: return
               /\ ev' = [Event("idx_exit", h, dom, SBI_OK) EXCEPT
                           !.startup = "ignored"]
               /\ UNCHANGED <<assigned_harts, hartindex_to_domain, pmp, csr,
                              trap_regs, idx_ctx, c_rt, phase, cursor, rc>>
          ELSE
            LET swap == [c \in CSRS |->
                           csr_swap(csr[h][c], idx_ctx[ctx].csr[c])]
                ic1 == [idx_ctx EXCEPT
                          ![ctx].regs = IdxSavedFrame(trap_regs[h]),
                          ![ctx].csr = [c \in CSRS |-> swap[c].ret]]
            IN
            IF c_rt[h] = <<>> \/ idx_ctx[ctx].c_rt_ctx # <<h, Len(c_rt[h])>>
            THEN \* cpu_lowlevel_context_exit through a runtime context that
                 \* is not the one of an enter outstanding on this hart
                 /\ phase' = "fault"
                 /\ ev' = Event("idx_exit", h, dom, SBI_OK)
                 /\ idx_ctx' = ic1
                 /\ csr' = [csr EXCEPT ![h] = [c \in CSRS |-> swap[c].new]]
                 /\ UNCHANGED <<assigned_harts, hartindex_to_domain, pmp,
                                trap_regs, c_rt, cursor, rc>>
            ELSE
              LET top == c_rt[h][Len(c_rt[h])]
                  asg == sbi_domain_assign_hart(assigned_harts,
                             hartindex_to_domain, top.tdom, current_hartid(h))
              IN /\ idx_ctx' = ic1
                 /\ csr' = [csr EXCEPT ![h] = [c \in CSRS |-> swap[c].new]]
                 /\ c_rt' = [c_rt EXCEPT ![h] = SubSeq(@, 1, Len(@) - 1)]
                 /\ assigned_harts' = asg.masks
                 /\ hartindex_to_domain' = asg.map
                 /\ pmp' = [pmp EXCEPT
                              ![h] = SwitchPmp(hartindex_to_domain, asg.map, h)]
                 /\ trap_regs' = [trap_regs EXCEPT ![h] = top.regs]
                 /\ ev' = [Event("idx_exit", h, dom, r) EXCEPT
                             !.startup = top.from]
                 /\ IF top.from = "init"
                    THEN \* line 135: init returns a non-zero rc of enter
                         IF r # 0
                         THEN /\ phase' = "idx_failed"
                              /\ rc' = r
                              /\ cursor' = cursor
                         ELSE /\ phase' = IF cursor + 1 > NumDomains
                                          THEN "idx" ELSE phase
                              /\ cursor' = cursor + 1
                              /\ rc' = rc
                    ELSE UNCHANGED <<phase, cursor, rc>>
    /\ UNCHANGED <<nextctxvars, stepvars, context_mgmt_enabled, dom_next_ctx, runs>>

\* domain_context_setup(dom) on the hart with id hartid (lines 103-121)
domain_context_setup(ic, dom, hartid) ==
    LET ctx == dom_next_ctx[dom] IN
    [ic EXCEPT
       ![ctx].regs = [@ EXCEPT !["mstatus"] = next_mode[dom],
                               !["mepc"] = next_addr[dom],
                               !["a0"] = hartid,
                               !["a1"] = next_arg1[dom]],
       ![ctx].csr = [@ EXCEPT !["stvec"] = IF next_mode[dom] = PRV_S
                                            THEN next_addr[dom] ELSE @]]

\* one iteration of the loop of sbi_context_mgmt_init (lines 129-138) up to
\* the point where the domain it entered runs
IdxMgmtInit ==
    /\ phase = "idx_init"
    /\ c_rt[ColdBootHart] = <<>>
    /\ cursor <= NumDomains
    /\ LET dom == cursor IN
       IF ~context_mgmt_enabled[dom]
       THEN /\ cursor' = cursor + 1
            /\ phase' = IF cursor + 1 > NumDomains THEN "idx" ELSE phase
            /\ ev' = Event("idx_init", ColdBootHart, dom, SBI_OK)
            /\ UNCHANGED <<assigned_harts, hartindex_to_domain, pmp, csr,
                           trap_regs, idx_ctx, c_rt>>
       ELSE IF dom_next_ctx[dom] = NULL
       THEN \* domain_context_setup stores through a null pointer
            /\ phase' = "fault"
            /\ ev' = Event("idx_init", ColdBootHart, dom, SBI_OK)
            /\ UNCHANGED <<assigned_harts, hartindex_to_domain, pmp, csr,
                           trap_regs, idx_ctx, c_rt, cursor>>
       ELSE /\ IdxSwitchIn(domain_context_setup(idx_ctx, dom,
                               current_hartid(ColdBootHart)),
                           ColdBootHart, dom, "init")
            /\ ev' = [Event("idx_init", ColdBootHart, dom, SBI_OK) EXCEPT
                        !.startup = "enter"]
            /\ UNCHANGED <<phase, cursor>>
    /\ UNCHANGED <<nextctxvars, stepvars, context_mgmt_enabled, dom_next_ctx, rc,
                   runs, ncalls>>

\* the domain on hart h writes an S-mode CSR or traps with a changed register
IdxWrite(h) ==
    /\ RunsDomain(h)
    /\ runs < MaxRuns
    /\ runs' = runs + 1
    /\ \/ /\ \E c \in CSRS, v \in Vals :
               /\ csr[h][c] # v
               /\ csr' = [csr EXCEPT ![h][c] = v]
          /\ UNCHANGED trap_regs
       \/ /\ \E r \in REGS, v \in Vals :
               /\ trap_regs[h][r] # v
               /\ trap_regs' = [trap_regs EXCEPT ![h][r] = v]
          /\ UNCHANGED csr
    /\ ev' = Event("run", h, hartindex_to_domain[h], SBI_OK)
    /\ UNCHANGED <<nextctxvars, stepvars, idxvars, assigned_harts, hartindex_to_domain,
                   pmp, phase, cursor, rc, ncalls>>

(***************************************************************************)
(* Initial states: a registered set of domains before                      *)
(* sbi_context_mgmt_init runs.  Every hart is assigned to exactly one      *)
(* domain, a domain's assigned harts are among its possible harts, the     *)
(* root domain may run on every hart and a boot hart is a possible hart.   *)
(* Every hart runs the domain it is assigned to, under that domain's PMP.  *)
(***************************************************************************)
Init ==
    /\ hartindex_to_domain \in [HartIndexes -> Domains]
    /\ assigned_harts =
         [d \in Domains |-> { i \in HartIndexes : hartindex_to_domain[i] = d }]
    /\ possible_harts \in [Domains -> (SUBSET HartIndexes) \ {{}}]
    /\ possible_harts[root] = HartIndexes
    /\ \A d \in Domains : assigned_harts[d] \subseteq possible_harts[d]
    /\ boot_hartid \in [Domains -> HartIds]
    /\ \A d \in Domains :
         sbi_hartid_to_hartindex(boot_hartid[d]) \in possible_harts[d]
    /\ hartindex_to_context_table = [d \in Domains |-> [i \in HartIndexes |-> NULL]]
    /\ heap = [p \in SlotPtrs |-> ZeroContext]
    /\ heap_brk = 0
    /\ tail = [i \in HartIndexes |-> NULL]
    /\ phase = "setup"
    /\ cursor = 1
    /\ rc = SBI_OK
    /\ pmp = hartindex_to_domain
    /\ csr = [i \in HartIndexes |-> ZeroCsrs]
    /\ trap_regs = [i \in HartIndexes |-> ZeroRegs]
    /\ hart_state = [i \in HartIndexes |-> "started"]
    /\ runs = 0
    /\ ncalls = 0
    /\ ev = Event("boot", 0, NULL, SBI_OK)
    /\ calls = [i \in HartIndexes |-> <<>>]
    /\ reentered = [i \in HartIndexes |-> FALSE]
    /\ startups = [p \in SlotPtrs |-> 0]
    /\ context_mgmt_enabled = [d \in Domains |-> FALSE]
    /\ dom_next_ctx = [d \in Domains |-> NULL]
    /\ idx_ctx = [d \in Domains |-> ZeroIdxContext]
    /\ c_rt = [i \in HartIndexes |-> <<>>]
    /\ inflight = [i \in HartIndexes |-> IdleCall]
    /\ pmp_regions = [i \in HartIndexes |->
                        [n \in 1 .. PmpCount |-> hartindex_to_domain[i]]]

Next ==
    \/ SetupStep
    \/ FailFreeAll
    \/ \E h \in HartIndexes, d \in Domains : Enter(h, d)
    \/ \E h \in HartIndexes : Exit(h)
    \/ \E h \in HartIndexes : WriteCsr(h)
    \/ \E h \in HartIndexes : WriteReg(h)
    \/ \E h, t \in HartIndexes : HsmHartStart(h, t)

Spec == Init /\ [][Next]_vars

\* sbi_context_mgmt_init alone
NextInit ==
    \/ SetupStep
    \/ FailFreeAll

SpecInit == Init /\ [][NextInit]_vars

NoFault == phase # "fault"

\* sbi_context_mgmt_init, then enters and exits whose statements interleave
NextSteps ==
    \/ SetupStep
    \/ FailFreeAll
    \/ \E h \in HartIndexes, d \in Domains : StepEnter(h, d)
    \/ \E h \in HartIndexes : StepExit(h)
    \/ \E h \in HartIndexes : SwitchStatement(h)
    \/ \E h \in HartIndexes : StepEnterReturn(h)
    \/ \E h \in HartIndexes : StepExitReturn(h)
    \/ \E h \in HartIndexes : StartupCheck(h)
    \/ \E h \in HartIndexes : StartupHartStart(h)
    \/ \E h \in HartIndexes : StartupHartStop(h)
    \/ \E h \in HartIndexes : StartupJump(h)

SpecSteps == Init /\ [][NextSteps]_vars

(***************************************************************************)
(* The index-based variant: a registered set of domains before             *)
(* sbi_context_mgmt_init runs.  A domain may or may not be context-managed *)
(* and may or may not have a context.  Every hart boots in the root        *)
(* domain.                                                                 *)
(***************************************************************************)
InitIdx ==
    /\ hartindex_to_domain = [i \in HartIndexes |-> root]
    /\ assigned_harts =
         [d \in Domains |-> { i \in HartIndexes : hartindex_to_domain[i] = d }]
    /\ possible_harts = [d \in Domains |-> HartIndexes]
    /\ boot_hartid = [d \in Domains |-> sbi_hartindex_to_hartid(ColdBootHart)]
    /\ context_mgmt_enabled \in [Domains -> BOOLEAN]
    /\ dom_next_ctx \in [Domains -> {NULL} \cup Domains]
    /\ \A d \in Domains : dom_next_ctx[d] \in {NULL, d}
    /\ idx_ctx = [d \in Domains |-> ZeroIdxContext]
    /\ c_rt = [i \in HartIndexes |-> <<>>]
    /\ inflight = [i \in HartIndexes |-> IdleCall]
    /\ pmp_regions = [i \in HartIndexes |->
                        [n \in 1 .. PmpCount |-> hartindex_to_domain[i]]]
    /\ hartindex_to_context_table = [d \in Domains |-> [i \in HartIndexes |-> NULL]]
    /\ heap = [p \in SlotPtrs |-> ZeroContext]
    /\ heap_brk = 0
    /\ tail = [i \in HartIndexes |-> NULL]
    /\ phase = "idx_init"
    /\ cursor = 1
    /\ rc = SBI_OK
    /\ pmp = hartindex_to_domain
    /\ csr = [i \in HartIndexes |-> ZeroCsrs]
    /\ trap_regs = [i \in HartIndexes |-> ZeroRegs]
    /\ hart_state = [i \in HartIndexes |-> "started"]
    /\ runs = 0
    /\ ncalls = 0
    /\ ev = Event("boot", 0, NULL, SBI_OK)
    /\ calls = [i \in HartIndexes |-> <<>>]
    /\ reentered = [i \in HartIndexes |-> FALSE]
    /\ startups = [p \in SlotPtrs |-> 0]

NextIdx ==
    \/ IdxMgmtInit
    \/ \E h \in HartIndexes, k \in EnterIndexes : IdxDomainEnter(h, k)
    \/ \E h \in HartIndexes, r \in ExitCodes : IdxDomainExit(h, r)
    \/ \E h \in HartIndexes : IdxWrite(h)

SpecIdx == InitIdx /\ [][NextIdx]_vars

(***************************************************************************)
(* The prev_dom variant: a slot is allocated when its domain first calls   *)
(* enter or exit on the hart, a slot records the domain that entered it,   *)
(* and exit looks for a domain that has no slot yet when no caller is      *)
(* recorded.                                                               *)
(***************************************************************************)
\* the S-mode CSRs the switcher of the prev_dom variant exchanges
PdCSRS == {"sstatus", "sie", "stvec", "sscratch", "sepc", "scause", "stval",
           "sip", "satp", "scounteren", "senvcfg"}

\* a zeroed struct sbi_context of the prev_dom variant (sbi_zalloc, and the
\* startup_ctx of the switcher)
ZeroPdContext ==
    [regs |-> ZeroRegs, csr |-> [c \in PdCSRS |-> 0], prev_dom |-> NULL]

\* sbi_domain_for_each(i, dom): the registered domains by index, root first
RegistryOrder == SortedSeq(Domains)

\* a variant of SkipInSearch that skips the domain of the hart only
SkipInSearchCurrentOnly(h, d) == d = hartindex_to_domain[h]

\* the test of line 134: the search skips root and the domain of the hart
SkipInSearch(h, d) == d = root \/ d = hartindex_to_domain[h]

RECURSIVE FindUninitialized(_, _, _)
\* The loop of lines 133-141 from registry position k on, for hart index h
\* and the context tables table: the first domain that is not skipped, has h
\* in possible_harts and has no context for h; NULL when the registry is
\* exhausted.
FindUninitialized(table, k, h) ==
    IF k > Len(RegistryOrder) THEN NULL
    ELSE LET d == RegistryOrder[k] IN
         IF SkipInSearch(h, d) THEN FindUninitialized(table, k + 1, h)
         ELSE IF h \in possible_harts[d] /\ table[d][h] = NULL
         THEN d
         ELSE FindUninitialized(table, k + 1, h)

\* the domain sbi_domain_context_exit switches to (lines 128-146), for a
\* hart whose context records prev
PdExitTarget(table, h, prev) ==
    IF prev # NULL THEN prev
    ELSE IF FindUninitialized(table, 1, h) # NULL
    THEN FindUninitialized(table, 1, h)
    ELSE root

\* sbi_hart_switch_mode on the CSRs of the prev_dom variant
PdStartCsrs(d, old) ==
    [c \in PdCSRS |->
       IF c \in CSRS THEN StartCsrs(d, [x \in CSRS |-> old[x]])[c] ELSE old[c]]

\* switch_to_next_domain_context(dom) of the prev_dom variant on hart index
\* h, from heap hp in which the hart's context ctx is allocated: the new
\* masks, map, PMP, live CSRs, live trap frame, heap, and whether the target
\* had no context (startup)
pd_switch_to_next_domain_context(hp, table, h, ctx, d) ==
    LET target == table[d][h]
        startup == target = NULL
        dom_ctx == IF startup THEN ZeroPdContext ELSE hp[target]
        asg == AssignHartindex(assigned_harts, hartindex_to_domain, h, d)
        swap == [c \in PdCSRS |-> csr_swap(csr[h][c], dom_ctx.csr[c])]
        hp1 == [hp EXCEPT ![ctx].csr = [c \in PdCSRS |-> swap[c].ret]]
        hp2 == SaveTrapRegs(hp1, ctx, trap_regs[h])
    IN [masks |-> asg.masks,
        map |-> asg.map,
        pmp |-> sbi_hart_pmp_configure(asg.map, h),
        csr |-> [c \in PdCSRS |-> swap[c].new],
        regs |-> IF startup THEN ZeroRegs ELSE hp2[target].regs,
        heap |-> hp2,
        startup |-> startup]

\* the effect of the switcher and of the startup at its end (lines 80-87) on
\* the state, for a call op of hart h that resolved to domain d
PdSwitch(op, hp, table, h, ctx, d) ==
    LET sw == pd_switch_to_next_domain_context(hp, table, h, ctx, d)
        outcome == IF ~sw.startup THEN "none"
                   ELSE IF current_hartid(h) = boot_hartid[d] THEN "jump"
                   ELSE "stop"
    IN /\ heap' = sw.heap
       /\ hartindex_to_context_table' = table
       /\ assigned_harts' = sw.masks
       /\ hartindex_to_domain' = sw.map
       /\ pmp' = [pmp EXCEPT ![h] = sw.pmp]
       /\ csr' = [csr EXCEPT ![h] =
                    IF outcome = "jump" THEN PdStartCsrs(d, sw.csr) ELSE sw.csr]
       /\ trap_regs' = [trap_regs EXCEPT ![h] =
                    IF outcome = "jump" THEN StartRegs(d, boot_hartid[d])
                    ELSE sw.regs]
       /\ hart_state' = IF outcome = "stop"
                        THEN [hart_state EXCEPT ![h] = "stopped"]
                        ELSE hart_state
       /\ ev' = [Event(op, h, d, SBI_OK) EXCEPT
                   !.ctx = ctx, !.startup = outcome,
                   !.alloc = (table # hartindex_to_context_table),
                   !.tail = hp[ctx].prev_dom]

\* a call that returns r before it changes anything but the heap break
PdReturn(op, h, d, r) ==
    /\ ev' = Event(op, h, d, r)
    /\ UNCHANGED <<heap, hartindex_to_context_table, assigned_harts,
                   hartindex_to_domain, pmp, csr, trap_regs, hart_state,
                   heap_brk>>

\* sbi_domain_context_enter(dom) on hart index h (lines 90-113); zalloc is
\* what sbi_zalloc returns if it is called
PdEnter(h, d) ==
    /\ phase = "run"
    /\ hart_state[h] = "started"
    /\ ncalls < MaxPdCalls
    /\ ncalls' = ncalls + 1
    /\ LET cur == hartindex_to_domain[h]
           old == hartindex_to_context_table[cur][h]
           dom_ctx == hartindex_to_context_table[d][h]
       IN \E zalloc \in {NULL, heap_brk + 1} :
            LET ctx == IF old = NULL THEN zalloc ELSE old
                table == [hartindex_to_context_table EXCEPT ![cur][h] = ctx]
            IN /\ old # NULL => zalloc = NULL
               /\ IF ctx = NULL THEN PdReturn("pd_enter", h, d, SBI_ENOMEM)
                  ELSE IF dom_ctx = NULL
                  THEN /\ ev' = Event("pd_enter", h, d, SBI_EINVAL)
                       /\ hartindex_to_context_table' = table
                       /\ heap_brk' = IF old = NULL THEN zalloc ELSE heap_brk
                       /\ UNCHANGED <<heap, assigned_harts, hartindex_to_domain,
                                      pmp, csr, trap_regs, hart_state>>
                  ELSE /\ heap_brk' = IF old = NULL THEN zalloc ELSE heap_brk
                       /\ PdSwitch("pd_enter",
                                   [heap EXCEPT ![dom_ctx].prev_dom = cur],
                                   table, h, ctx, d)
    /\ UNCHANGED <<possible_harts, boot_hartid, tail, phase, cursor, rc, runs,
                   calls, reentered, startups, idxvars, stepvars>>

\* sbi_domain_context_exit() on hart index h (lines 115-151)
PdExit(h) ==
    /\ phase = "run"
    /\ hart_state[h] = "started"
    /\ ncalls < MaxPdCalls
    /\ ncalls' = ncalls + 1
    /\ LET cur == hartindex_to_domain[h]
           old == hartindex_to_context_table[cur][h]
       IN \E zalloc \in {NULL, heap_brk + 1} :
            LET ctx == IF old = NULL THEN zalloc ELSE old
                table == [hartindex_to_context_table EXCEPT ![cur][h] = ctx]
            IN /\ old # NULL => zalloc = NULL
               /\ IF ctx = NULL THEN PdReturn("pd_exit", h, NULL, SBI_ENOMEM)
                  ELSE /\ heap_brk' = IF old = NULL THEN zalloc ELSE heap_brk
                       /\ PdSwitch("pd_exit", heap, table, h, ctx,
                                   PdExitTarget(table, h, heap[ctx].prev_dom))
    /\ UNCHANGED <<possible_harts, boot_hartid, tail, phase, cursor, rc, runs,
                   calls, reentered, startups, idxvars, stepvars>>

\* a registered set of domains with every hart running in the domain it is
\* assigned to at boot and no context allocated yet
InitPd ==
    /\ hartindex_to_domain \in [HartIndexes -> Domains]
    /\ assigned_harts =
         [d \in Domains |-> { i \in HartIndexes : hartindex_to_domain[i] = d }]
    /\ possible_harts \in [Domains -> (SUBSET HartIndexes) \ {{}}]
    /\ possible_harts[root] = HartIndexes
    /\ \A d \in Domains : assigned_harts[d] \subseteq possible_harts[d]
    /\ boot_hartid \in [Domains -> HartIds]
    /\ \A d \in Domains :
         sbi_hartid_to_hartindex(boot_hartid[d]) \in possible_harts[d]
    /\ hartindex_to_context_table = [d \in Domains |-> [i \in HartIndexes |-> NULL]]
    /\ heap = [p \in SlotPtrs |-> ZeroPdContext]
    /\ heap_brk = 0
    /\ tail = [i \in HartIndexes |-> NULL]
    /\ phase = "run"
    /\ cursor = 1
    /\ rc = SBI_OK
    /\ pmp = hartindex_to_domain
    /\ csr = [i \in HartIndexes |-> [c \in PdCSRS |-> 0]]
    /\ trap_regs = [i \in HartIndexes |-> ZeroRegs]
    /\ hart_state = [i \in HartIndexes |-> "started"]
    /\ runs = 0
    /\ ncalls = 0
    /\ ev = Event("boot", 0, NULL, SBI_OK)
    /\ calls = [i \in HartIndexes |-> <<>>]
    /\ reentered = [i \in HartIndexes |-> FALSE]
    /\ startups = [p \in SlotPtrs |-> 0]
    /\ context_mgmt_enabled = [d \in Domains |-> FALSE]
    /\ dom_next_ctx = [d \in Domains |-> NULL]
    /\ idx_ctx = [d \in Domains |-> ZeroIdxContext]
    /\ c_rt = [i \in HartIndexes |-> <<>>]
    /\ inflight = [i \in HartIndexes |-> IdleCall]
    /\ pmp_regions = [i \in HartIndexes |->
                        [n \in 1 .. PmpCount |-> hartindex_to_domain[i]]]

NextPd ==
    \/ \E h \in HartIndexes, d \in Domains : PdEnter(h, d)
    \/ \E h \in HartIndexes : PdExit(h)
    \/ \E h \in HartIndexes : WriteReg(h)

SpecPd == InitPd /\ [][NextPd]_vars

(***************************************************************************)
(* Claims about enter and exit.                                            *)
(***************************************************************************)
\* the step is a call of sbi_context_domain_enter(d) on hart index h
IsEnterStep(h, d) ==
    /\ ncalls' = ncalls + 1
    /\ ev'.op = "enter" /\ ev'.hart = h /\ ev'.dom = d

\* the step is a call of sbi_context_domain_exit() on hart index h
IsExitStep(h) ==
    /\ ncalls' = ncalls + 1
    /\ ev'.op = "exit" /\ ev'.hart = h

\* the last operation was an exit that returned 0 to the trap-return path and
\* matched the innermost outstanding enter of its hart
MatchedExit ==
    /\ ev.op = "exit" /\ ev.rc = SBI_OK /\ ev.startup = "none"
    /\ ev.popped # <<>>

\* C1: sbi_context_domain_enter(dom) returns SBI_EINVAL exactly when the
\* target domain's slot for the current hart is null or not initialized, and
\* then the domain assignment, the PMP, the live CSRs, the live trap frame
\* and every slot are as before the call.
C1_EnterRejectsExactly ==
    [][\A h \in HartIndexes, d \in Domains :
         IsEnterStep(h, d) =>
           LET dom_ctx == hartindex_to_context_table[d][h] IN
           /\ (ev'.rc = SBI_EINVAL) <=>
                (dom_ctx = NULL \/ ~heap[dom_ctx].initialized)
           /\ (ev'.rc = SBI_EINVAL) => UNCHANGED progvars]_vars

\* an enter was rejected because the target slot exists but was never saved
C1_Witness ==
    /\ ev.op = "enter" /\ ev.rc = SBI_EINVAL
    /\ hartindex_to_context_table[ev.dom][ev.hart] # NULL
    /\ ~heap[hartindex_to_context_table[ev.dom][ev.hart]].initialized

\* C2: after a successful enter(T) and T's matching exit, every live tracked
\* CSR has the value it had in the caller when enter was called.
C2_CsrRoundTrip ==
    (MatchedExit /\ ~reentered[ev.hart]) =>
       csr[ev.hart] = ev.popped[1].csr

\* C3 as stated: after a successful enter(T) and T's matching exit, the live
\* trap frame is the caller's frame at the enter and T's slot holds the frame
\* that was live in T at the exit.
C3_Original ==
    MatchedExit =>
       /\ trap_regs[ev.hart] = ev.popped[1].regs
       /\ heap[ev.ctx].regs = ev.regs

\* C3 as amended: the same, provided no domain was entered on that hart while
\* it had an enter outstanding there.
C3_TrapFrameRoundTrip ==
    (MatchedExit /\ ~reentered[ev.hart]) =>
       /\ trap_regs[ev.hart] = ev.popped[1].regs
       /\ heap[ev.ctx].regs = ev.regs

\* a matching exit brought back a caller frame that differs from the frame
\* the callee left in its slot
C3_Witness ==
    /\ MatchedExit /\ ~reentered[ev.hart]
    /\ trap_regs[ev.hart] # heap[ev.ctx].regs
    /\ ev.popped[1].regs # ZeroRegs

\* C4: between switches each hart is in the assigned_harts of exactly one
\* domain, the hart index -> domain map names that domain, and the hart's
\* current context pointer is that domain's slot for the hart.
C4_OneDomainPerHart ==
    \A h \in HartIndexes :
       /\ \A d \in Domains :
            (h \in assigned_harts[d]) <=> (hartindex_to_domain[h] = d)
       /\ phase = "run" =>
            /\ sbi_context_thishart_ptr(h) # NULL
            /\ heap[sbi_context_thishart_ptr(h)].dom = hartindex_to_domain[h]
            /\ \A d \in Domains : \A i \in HartIndexes :
                 (hartindex_to_context_table[d][i] = sbi_context_thishart_ptr(h))
                   => (d = hartindex_to_domain[h] /\ i = h)

\* both harts have left the domain they booted in, after successful and
\* failed calls
C4_Witness ==
    /\ phase = "run" /\ ncalls >= 3
    /\ ev.op = "enter" /\ ev.rc = SBI_EINVAL
    /\ \A h \in HartIndexes :
         heap[sbi_context_thishart_ptr(h)].dom # heap[1].dom

\* C5 as stated: after a successful enter(T) the PMP of the hart is T's, after
\* the matching exit it is that of the caller's domain, and between switches
\* it is that of the domain the hart is assigned to.
C5_Original ==
    /\ \A h \in HartIndexes : pmp[h] = hartindex_to_domain[h]
    /\ (ev.op = "enter" /\ ev.rc = SBI_OK) => pmp[ev.hart] = ev.dom
    /\ MatchedExit => pmp[ev.hart] = heap[ev.popped[1].caller].dom

\* C5 as amended: the PMP after the matching exit is the caller's provided no
\* domain was entered on that hart while it had an enter outstanding there.
C5_PmpCoherence ==
    /\ \A h \in HartIndexes : pmp[h] = hartindex_to_domain[h]
    /\ (ev.op = "enter" /\ ev.rc = SBI_OK) => pmp[ev.hart] = ev.dom
    /\ (MatchedExit /\ ~reentered[ev.hart]) =>
          pmp[ev.hart] = heap[ev.popped[1].caller].dom

\* a matching exit returned the hart to its caller's domain, which is not the
\* domain the hart booted in
C5_Witness ==
    /\ MatchedExit /\ ~reentered[ev.hart]
    /\ pmp[ev.hart] = heap[ev.popped[1].caller].dom
    /\ pmp[ev.hart] # heap[ev.ctx].dom

\* C10: sbi_context_domain_exit() switches into the current slot's next_ctx
\* whenever that link is non-null and returns SBI_EINVAL only when it is
\* null; in that case the domain assignment, the PMP, the CSRs, the trap
\* frame and the slots are unchanged.
C10_ExitFollowsNextCtx ==
    [][\A h \in HartIndexes :
         IsExitStep(h) =>
           LET ctx == sbi_context_thishart_ptr(h)
               nxt == heap[ctx].next_ctx
           IN /\ (ev'.rc = SBI_EINVAL) <=> (nxt = NULL)
              /\ (ev'.rc = SBI_EINVAL) => UNCHANGED progvars
              /\ (nxt # NULL) =>
                   /\ ev'.rc = SBI_OK
                   /\ hartindex_to_domain'[h] = heap[nxt].dom
                   /\ h \in assigned_harts'[heap[nxt].dom]
                   /\ pmp'[h] = heap[nxt].dom
                   /\ heap'[ctx].initialized
                   /\ heap'[ctx].regs = trap_regs[h]
                   /\ (heap[nxt].initialized /\ nxt # ctx) =>
                        trap_regs'[h] = heap[nxt].regs]_vars

\* an exit found no successor and returned SBI_EINVAL
C10_Witness ==
    /\ ev.op = "exit" /\ ev.rc = SBI_EINVAL
    /\ heap[ev.ctx].next_ctx = NULL
    /\ ncalls >= 2

(***************************************************************************)
(* Claims about sbi_context_mgmt_init.                                     *)
(***************************************************************************)
\* sbi_context_mgmt_init has returned
InitReturned == phase \in {"run", "failed"}

\* the last iteration of setup_domain_context allocated a slot for a hart
\* that is possible but not assigned in a non-root domain, so that the two
\* validations apply to it
ValidatedIteration ==
    /\ ev.op \in {"setup", "init_failed"}
    /\ ev.alloc
    /\ ev.dom # root
    /\ ev.hart \notin assigned_harts[ev.dom]

\* the position of domain d in the order init sets the domains up
OrderOf(d) == CHOOSE k \in 1 .. Len(DomainOrder) : DomainOrder[k] = d

\* a domain set up before d has hart index h in its assigned_harts
AssignedEarlier(d, h) ==
    \E e \in Domains : OrderOf(e) < OrderOf(d) /\ h \in assigned_harts[e]

RECURSIVE ChainFrom(_, _)
\* the slots met following next_ctx from p, at most fuel of them
ChainFrom(p, fuel) ==
    IF p = NULL \/ fuel = 0 THEN <<>>
    ELSE <<p>> \o ChainFrom(heap[p].next_ctx, fuel - 1)

\* the boot-up chain of hart index h: from the slot of the domain the hart is
\* assigned to
BootChain(h) == ChainFrom(sbi_context_thishart_ptr(h), MaxSlots + 1)

\* C6: after init returns 0, the boot-up chain of every hart of root's
\* possible_harts visits no slot twice, visits only slots keyed by the hart,
\* and ends at root's slot for the hart, whose next_ctx is null.
C6_BootChainEndsAtRoot ==
    (phase = "run") =>
       \A h \in possible_harts[root] :
          LET c == BootChain(h) IN
          /\ Len(c) >= 1 /\ Len(c) <= MaxSlots
          /\ \A j, k \in 1 .. Len(c) : (j # k) => (c[j] # c[k])
          /\ \A k \in 1 .. Len(c) :
               hartindex_to_context_table[heap[c[k]].dom][h] = c[k]
          /\ c[Len(c)] = hartindex_to_context_table[root][h]
          /\ heap[c[Len(c)]].next_ctx = NULL

\* init returned 0 and some hart has a chain through three domains
C6_Witness ==
    /\ phase = "run"
    /\ \E h \in HartIndexes : Len(BootChain(h)) = 3

\* C7 as stated: for a possible, unassigned hart of a non-root domain d, init
\* fails with SBI_EINVAL when d.boot_hartid is not in d.assigned_harts, and d
\* passes the validation when it is.
C7_Original ==
    ValidatedIteration =>
       LET BootIsAssigned ==
             (boot_hartid[ev.dom] - HartIdBase) \in assigned_harts[ev.dom]
       IN
       /\ ~BootIsAssigned =>
            (phase \in {"fail", "failed"} /\ rc = SBI_EINVAL)
       /\ BootIsAssigned =>
            (phase \in {"fail", "failed"} => ev.tail = NULL)

\* C7 as amended: init fails with SBI_EINVAL when d.boot_hartid is in
\* d.assigned_harts, and d passes the validation when it is not (the
\* iteration then fails only if the tail cursor of the hart is null).
C7_BootHartValidation ==
    ValidatedIteration =>
       LET BootIsAssigned ==
             (boot_hartid[ev.dom] - HartIdBase) \in assigned_harts[ev.dom]
       IN
       /\ BootIsAssigned =>
            (phase \in {"fail", "failed"} /\ rc = SBI_EINVAL)
       /\ ~BootIsAssigned =>
            (phase \in {"fail", "failed"} <=> ev.tail = NULL)

\* init failed on a domain whose boot hart is assigned although the hart's
\* chain has a tail
C7_Witness ==
    /\ ValidatedIteration
    /\ (boot_hartid[ev.dom] - HartIdBase) \in assigned_harts[ev.dom]
    /\ ev.tail # NULL
    /\ phase = "failed" /\ rc = SBI_EINVAL

\* C8: when init reaches a possible, unassigned hart h of a non-root domain d
\* and no domain set up before d has h assigned, the tail cursor of h is
\* null, init returns SBI_EINVAL and no next_ctx refers to d's slot for h.
C8_OrphanHartValidation ==
    (ValidatedIteration /\ ~AssignedEarlier(ev.dom, ev.hart)) =>
       /\ ev.tail = NULL
       /\ phase \in {"fail", "failed"}
       /\ rc = SBI_EINVAL
       /\ \A p \in SlotPtrs : heap[p].next_ctx # ev.ctx

\* init returned SBI_EINVAL for an orphan hart of a domain whose boot hart is
\* not assigned
C8_Witness ==
    /\ ValidatedIteration /\ ~AssignedEarlier(ev.dom, ev.hart)
    /\ (boot_hartid[ev.dom] - HartIdBase) \notin assigned_harts[ev.dom]
    /\ phase = "failed" /\ rc = SBI_EINVAL

\* hart index h is assigned to root and is a possible, unassigned hart of
\* the non-root domain d
RootHartOfDomain(h, d) ==
    /\ d # root
    /\ h \in assigned_harts[root]
    /\ h \in possible_harts[d] \ assigned_harts[d]

\* init failed for another reason than the validation of d's slot for h
FailedElsewhere(h, d) ==
    /\ phase = "failed"
    /\ (rc = SBI_ENOMEM \/ ev.dom # d \/ ev.hart # h)

\* C9 as stated: with a hart that is assigned to root and is a possible,
\* unassigned hart of a non-root domain, init succeeds and links that
\* domain's slot for the hart after root's slot.
C9_Original ==
    \A h \in HartIndexes, d \in Domains :
       (ev.op \in {"setup", "init_failed"} /\ InitReturned
          /\ RootHartOfDomain(h, d) /\ ~FailedElsewhere(h, d)) =>
          /\ phase = "run"
          /\ heap[hartindex_to_context_table[root][h]].next_ctx =
               hartindex_to_context_table[d][h]

\* C9 as amended: with such a hart init fails, with SBI_EINVAL unless it
\* failed elsewhere before, and links the domain's slot for the hart
\* nowhere; whenever init succeeds root's slots have no successor.
C9_RootHartRejected ==
    /\ \A h \in HartIndexes, d \in Domains :
         (ev.op \in {"setup", "init_failed"} /\ InitReturned
            /\ RootHartOfDomain(h, d)) =>
            /\ phase = "failed"
            /\ ~FailedElsewhere(h, d) => rc = SBI_EINVAL
            /\ hartindex_to_context_table[d][h] # NULL =>
                 \A p \in SlotPtrs :
                    heap[p].next_ctx # hartindex_to_context_table[d][h]
    /\ (ev.op = "setup" /\ phase = "run") =>
         \A h \in HartIndexes :
            heap[hartindex_to_context_table[root][h]].next_ctx = NULL

\* the scenario: hart 1 is assigned to root, the domain has possible harts
\* {0, 1}, assigned harts {0} and boot hart 0, and init returned SBI_EINVAL
\* for the domain's slot of hart 1
C9_Witness ==
    /\ phase = "failed" /\ rc = SBI_EINVAL
    /\ ev.op = "init_failed" /\ ev.hart = 1 /\ ev.alloc
    /\ RootHartOfDomain(1, ev.dom)
    /\ possible_harts[ev.dom] = {0, 1}
    /\ assigned_harts[ev.dom] = {0}
    /\ boot_hartid[ev.dom] = sbi_hartindex_to_hartid(0)

C12_StackDiscipline ==
    [][/\ \A h \in HartIndexes :
            (phase' = "run" /\ ~reentered'[h] /\ calls'[h] # <<>>) =>
               LET cur ==
                     hartindex_to_context_table'[hartindex_to_domain'[h]][h]
               IN /\ cur = calls'[h][Len(calls'[h])].target
                  /\ \A k \in 1 .. Len(calls'[h]) : calls'[h][k].caller # cur
       /\ \A h \in HartIndexes :
            (IsExitStep(h) /\ ev'.rc = SBI_OK /\ ~reentered[h]
               /\ calls[h] # <<>>) =>
               /\ sbi_context_thishart_ptr(h) = calls[h][Len(calls[h])].target
               /\ hartindex_to_context_table'[hartindex_to_domain'[h]][h] =
                    calls[h][Len(calls[h])].caller
               /\ ev'.startup = "none"]_vars

\* a callee returned to its caller after a nested enter and exit of its own
C12_Witness ==
    /\ MatchedExit /\ ~reentered[ev.hart]
    /\ ev.popped[1].nested >= 1
    /\ sbi_context_thishart_ptr(ev.hart) = ev.popped[1].caller

(***************************************************************************)
(* Claims about the index-based variant.                                   *)
(***************************************************************************)
\* the step is a call of the index-based sbi_context_domain_enter(k) on hart
\* index h
IsIdxEnterStep(h, k) ==
    /\ ncalls' = ncalls + 1
    /\ ev'.op = "idx_enter" /\ ev'.hart = h /\ ev'.dom = k

\* C13: in the index-based variant enter(k) returns SBI_EINVAL when k is at
\* least SBI_DOMAIN_MAX_INDEX, when domain k does not exist, when it has
\* context_mgmt_enabled false and when its next_ctx is null, and then the
\* domain assignment, the PMP, the CSRs, the trap frame and the saved
\* contexts are as before the call.
C13_IdxEnterRejects ==
    [][\A h \in HartIndexes, k \in EnterIndexes :
         (IsIdxEnterStep(h, k)
            /\ (IF k >= SBI_DOMAIN_MAX_INDEX \/ k \notin Domains THEN TRUE
                ELSE ~context_mgmt_enabled[k] \/ dom_next_ctx[k] = NULL)) =>
            /\ ev'.rc = SBI_EINVAL
            /\ UNCHANGED <<assigned_harts, hartindex_to_domain, pmp, csr,
                           trap_regs, idx_ctx, c_rt>>]_vars

\* a hart that is inside an entered domain was refused a context-managed
\* domain that has no context
C13_Witness ==
    /\ ev.op = "idx_enter" /\ ev.rc = SBI_EINVAL
    /\ ev.dom \in Domains
    /\ context_mgmt_enabled[ev.dom] /\ dom_next_ctx[ev.dom] = NULL
    /\ c_rt[ev.hart] # <<>>

(***************************************************************************)
(* Further claims about sbi_context_mgmt_init.                             *)
(***************************************************************************)
\* C14: after init returns 0, every domain has a slot for every hart index of
\* its possible_harts, the slot's dom field is the domain, and no slot is
\* installed in the table of two domains or under two hart indexes.
C14_TablesComplete ==
    (phase = "run") =>
       /\ \A d \in Domains : \A h \in possible_harts[d] :
            /\ hartindex_to_context_table[d][h] # NULL
            /\ heap[hartindex_to_context_table[d][h]].dom = d
       /\ \A d, e \in Domains : \A h, i \in HartIndexes :
            (/\ hartindex_to_context_table[d][h] # NULL
             /\ hartindex_to_context_table[d][h] =
                  hartindex_to_context_table[e][i]) => (d = e /\ h = i)

\* init returned 0 after it set up a non-root domain with two possible harts
C14_Witness ==
    /\ phase = "run" /\ ev.op = "setup"
    /\ \E d \in Domains \ {root} : Cardinality(possible_harts[d]) = 2
    /\ heap_brk >= 5

(***************************************************************************)
(* C15                                                                     *)
(***************************************************************************)
\* slot p is installed under hart index h in the table of some domain
KeyedBy(p, h) ==
    \E d \in Domains : hartindex_to_context_table[d][h] = p

\* a step of the statement-level model taken by hart h
IsStatementStep(h) ==
    /\ ev'.hart = h
    /\ ev'.op \in {"step_enter", "step_exit", "statement", "step_return",
                 "startup"}

\* C15: with the statements of the harts interleaved, every slot a hart reads
\* or writes during enter, exit and the switcher (its ctx and its dom_ctx) is
\* installed under that hart's own index, every slot a step of the hart
\* changes is such a slot, the only assigned_harts bits the step changes are
\* the hart's own, and two harts that are inside a call at the same time
\* work on disjoint slots.
C15_HartLocalAccess ==
    [][\A h \in HartIndexes : IsStatementStep(h) =>
          /\ \A p \in SlotPtrs : heap'[p] # heap[p] => KeyedBy(p, h)
          /\ \A d \in Domains : \A i \in HartIndexes \ {h} :
                (i \in assigned_harts'[d]) <=> (i \in assigned_harts[d])
          /\ inflight'[h].op # "none" =>
                /\ KeyedBy(inflight'[h].ctx, h)
                /\ KeyedBy(inflight'[h].dom_ctx, h)
          /\ \A g \in HartIndexes \ {h} :
                (inflight'[h].op # "none" /\ inflight'[g].op # "none") =>
                   {inflight'[h].ctx, inflight'[h].dom_ctx}
                     \cap {inflight'[g].ctx, inflight'[g].dom_ctx} = {}]_vars

\* two harts are inside the switcher at the same time, both on their way into
\* the same domain: one has set its bit there and exchanged its CSRs, the
\* other is about to set its bit
C15_Witness ==
    \E h, g \in HartIndexes :
       /\ h # g
       /\ inflight[h].op # "none" /\ inflight[g].op # "none"
       /\ heap[inflight[h].dom_ctx].dom = heap[inflight[g].dom_ctx].dom
       /\ h \in assigned_harts[heap[inflight[h].dom_ctx].dom]
       /\ inflight[h].swapped # {}
       /\ inflight[g].pc = 3
(***************************************************************************)
(* C16                                                                     *)
(***************************************************************************)
\* C16: inside one switch of hart h into the domain T of the incoming slot,
\* a PMP region changes only when the hart is already reassigned to T (map
\* and T's assigned_harts bit), a region is configured only when every region
\* was disabled, and whenever a live CSR or the live trap frame has been
\* exchanged with the incoming slot every PMP region is configured for T.
C16_SwitchPhaseOrder ==
    [][\A h \in HartIndexes :
          (IsStatementStep(h) /\ inflight[h].op # "none") =>
             LET T == heap[inflight[h].dom_ctx].dom IN
             /\ pmp_regions'[h] # pmp_regions[h] =>
                   /\ hartindex_to_domain[h] = T
                   /\ h \in assigned_harts[T]
             /\ (\E n \in 1 .. PmpCount :
                    pmp_regions'[h][n] \notin {0, pmp_regions[h][n]}) =>
                   \A n \in 1 .. PmpCount : pmp_regions[h][n] = 0
             /\ inflight'[h].swapped # {} =>
                   \A n \in 1 .. PmpCount : pmp_regions'[h][n] = T]_vars

\* a hart inside an enter into another domain has exchanged its first CSR;
\* the PMP was disabled and reconfigured on the way
C16_Witness ==
    \E h \in HartIndexes :
       /\ inflight[h].op = "enter"
       /\ inflight[h].swapped = {"stvec"}
       /\ heap[inflight[h].ctx].dom # heap[inflight[h].dom_ctx].dom
       /\ \A n \in 1 .. PmpCount :
             pmp_regions[h][n] = heap[inflight[h].dom_ctx].dom
(***************************************************************************)
(* C17                                                                     *)
(***************************************************************************)
\* C17: a successful enter switches into a slot that was marked initialized
\* before the call; an exit whose successor slot is not marked initialized
\* does not return to the trap-return path: it ends in the startup path, after
\* which the hart is stopped or runs from the entry state of the domain
\* (next_addr, next_mode, a0 = boot hart id, a1 = next_arg1), never from the
\* trap frame of the slot.
C17_NoResumeFromUninitialized ==
    [][\A h \in HartIndexes :
          /\ \A d \in Domains :
                (IsEnterStep(h, d) /\ ev'.rc = SBI_OK /\ phase' = "run") =>
                   /\ hartindex_to_context_table[d][h] # NULL
                   /\ heap[hartindex_to_context_table[d][h]].initialized
                   /\ hartindex_to_context_table'[hartindex_to_domain'[h]][h]
                        = hartindex_to_context_table[d][h]
          /\ (IsExitStep(h) /\ ev'.rc = SBI_OK /\ phase' = "run") =>
                LET ctx == hartindex_to_context_table[hartindex_to_domain[h]][h]
                    nxt == heap[ctx].next_ctx
                IN IF heap[nxt].initialized
                   THEN ev'.startup = "none"
                   ELSE /\ ev'.startup \in {"park", "handoff", "jump"}
                        /\ \/ hart_state'[h] = "stopped"
                           \/ /\ ev'.startup = "jump"
                              /\ trap_regs'[h] =
                                   StartRegs(heap[nxt].dom, boot_hartid[heap[nxt].dom])]_vars

\* an exit found its successor slot not initialized and jumped into the
\* domain through the startup path, with a slot frame that differs from the
\* entry state
C17_Witness ==
    /\ ev.op = "exit" /\ ev.rc = SBI_OK /\ ev.startup = "jump"
    /\ hart_state[ev.hart] = "started"
    /\ ~heap[hartindex_to_context_table[hartindex_to_domain[ev.hart]][ev.hart]].initialized
    /\ trap_regs[ev.hart] #
         heap[hartindex_to_context_table[hartindex_to_domain[ev.hart]][ev.hart]].regs
(***************************************************************************)
(* C18                                                                     *)
(***************************************************************************)
\* the entry state of domain d on the hart with id hartid
EntryRegs(d, hartid) ==
    [r \in REGS |-> IF r = "a0" THEN hartid
                    ELSE IF r = "a1" THEN next_arg1[d]
                    ELSE IF r = "mepc" THEN next_addr[d]
                    ELSE next_mode[d]]

\* C18: an exit of hart h whose successor slot, of domain d, is not marked
\* initialized ends in one of three ways.  If some possible hart of d is not
\* assigned to d, h is stopped and no other hart is started or changed.
\* Otherwise, if h is the boot hart of d, h keeps running and its frame is the
\* entry state of d with a0 = its hart id.  Otherwise h is stopped and the
\* boot hart of d is started: it runs, from the entry state of d if it was
\* stopped.
C18_StartupOutcomes ==
    [][\A h \in HartIndexes :
          (IsExitStep(h) /\ ev'.rc = SBI_OK /\ phase' = "run"
             /\ ~heap[heap[hartindex_to_context_table[hartindex_to_domain[h]][h]].next_ctx].initialized) =>
             LET ctx == hartindex_to_context_table[hartindex_to_domain[h]][h]
                 d == heap[heap[ctx].next_ctx].dom
                 b == boot_hartid[d] - HartIdBase
                 others == HartIndexes \ {h}
             IN IF \E i \in possible_harts[d] : i \notin assigned_harts'[d]
                THEN /\ hart_state'[h] = "stopped"
                     /\ \A i \in others :
                           /\ hart_state'[i] = hart_state[i]
                           /\ trap_regs'[i] = trap_regs[i]
                           /\ csr'[i] = csr[i]
                ELSE IF HartIdBase + h = boot_hartid[d]
                THEN /\ hart_state' = hart_state
                     /\ trap_regs'[h] = EntryRegs(d, HartIdBase + h)
                     /\ \A i \in others : trap_regs'[i] = trap_regs[i]
                ELSE /\ hart_state'[h] = "stopped"
                     /\ hart_state'[b] = "started"
                     /\ hart_state[b] = "stopped" =>
                           trap_regs'[b] = EntryRegs(d, boot_hartid[d])
                     /\ \A i \in others \ {b} : hart_state'[i] = hart_state[i]]_vars

\* an exit on a hart that is not the boot hart of the domain it started up
\* handed the domain to the boot hart, which was parked there, and stopped
C18_Witness ==
    /\ ev.op = "exit" /\ ev.rc = SBI_OK /\ ev.startup = "handoff"
    /\ hart_state[ev.hart] = "stopped"
    /\ boot_hartid[ev.dom] # HartIdBase + ev.hart
    /\ hart_state[boot_hartid[ev.dom] - HartIdBase] = "started"
    /\ trap_regs[boot_hartid[ev.dom] - HartIdBase] = EntryRegs(ev.dom, boot_hartid[ev.dom])
    /\ possible_harts[ev.dom] = assigned_harts[ev.dom]
(***************************************************************************)
(* C19                                                                     *)
(***************************************************************************)
\* C19: an enter whose target is the domain already running on the hart, and
\* an exit whose successor is the current slot, leave the live CSRs, the trap
\* frame, the PMP, the domain assignment and every slot unchanged.
C19_SameDomainNoOp ==
    [][\A h \in HartIndexes :
          LET ctx == hartindex_to_context_table[hartindex_to_domain[h]][h] IN
          (\/ IsEnterStep(h, hartindex_to_domain[h])
           \/ /\ IsExitStep(h)
              /\ ctx # NULL
              /\ heap[ctx].next_ctx = ctx) =>
             UNCHANGED <<csr, trap_regs, pmp, assigned_harts,
                         hartindex_to_domain, heap>>]_vars
(***************************************************************************)
(* C20                                                                     *)
(***************************************************************************)
\* the domain whose setup failed
FailedDomain == WorkList[cursor][1]

\* the slots sbi_zalloc handed out
Allocated == 1 .. heap_brk

\* after a failed init every slot allocated for the failed domain was freed
\* exactly once, no other slot was freed, the error code is returned and no
\* domain after the failed one got a slot
FreedAndReturned ==
    /\ \A p \in Allocated :
          heap[p].freed = IF heap[p].dom = FailedDomain THEN 1 ELSE 0
    /\ \A p \in SlotPtrs \ Allocated : heap[p].freed = 0
    /\ rc \in {SBI_ENOMEM, SBI_EINVAL}
    /\ \A p \in Allocated :
          OrderOf(heap[p].dom) <= OrderOf(FailedDomain)
    /\ \A d \in Domains :
          OrderOf(d) > OrderOf(FailedDomain) =>
             \A i \in HartIndexes : hartindex_to_context_table[d][i] = NULL

\* C20 as stated: after a failed init the slots of the failed domain are
\* freed exactly once, the error is returned without processing further
\* domains, and no context table entry, next_ctx link or tail cursor refers
\* to a freed slot.
C20_Original ==
    (phase = "failed") =>
       /\ FreedAndReturned
       /\ \A d \in Domains : \A i \in HartIndexes :
             hartindex_to_context_table[d][i] # NULL =>
                heap[hartindex_to_context_table[d][i]].freed = 0
       /\ \A p \in Allocated :
             (heap[p].freed = 0 /\ heap[p].next_ctx # NULL) =>
                heap[heap[p].next_ctx].freed = 0
       /\ \A i \in HartIndexes :
             tail[i] # NULL => heap[tail[i]].freed = 0

\* C20, amended: after a failed init the slots of the failed domain are freed
\* exactly once, the error is returned without processing further domains,
\* and no context table entry of another domain refers to a freed slot; the
\* table entries of the failed domain still refer to its freed slots.
C20_InitFailureFrees ==
    (phase = "failed") =>
       /\ FreedAndReturned
       /\ \A d \in Domains \ {FailedDomain} : \A i \in HartIndexes :
             hartindex_to_context_table[d][i] # NULL =>
                heap[hartindex_to_context_table[d][i]].freed = 0
       /\ \A p \in Allocated :
             heap[p].dom = FailedDomain =>
                \E i \in possible_harts[FailedDomain] :
                   hartindex_to_context_table[FailedDomain][i] = p

\* init failed in a domain after it had appended a slot of that domain to the
\* boot-up chain of a hart: the slot was freed, and the slot of an earlier
\* domain, which was not freed, still links to it
C20_Witness ==
    /\ phase = "failed"
    /\ \E p, q \in Allocated :
          /\ heap[p].freed = 1
          /\ heap[q].freed = 0
          /\ heap[q].next_ctx = p
          /\ heap[q].dom # heap[p].dom
(***************************************************************************)
(* C21                                                                     *)
(***************************************************************************)
\* the step is a call of sbi_domain_context_exit() on hart index h that got
\* as far as the switcher
IsPdExitStep(h) ==
    /\ ncalls' = ncalls + 1
    /\ ev'.op = "pd_exit" /\ ev'.hart = h /\ ev'.rc = SBI_OK

\* the caller recorded in the context of the domain running on hart h
RecordedCaller(h) ==
    LET ctx == hartindex_to_context_table[hartindex_to_domain[h]][h]
    IN IF ctx = NULL THEN NULL ELSE heap[ctx].prev_dom

\* the domains that are neither root nor the domain running on hart h, have
\* h in possible_harts and have no context for h
Candidates(h) ==
    { d \in Domains \ {root, hartindex_to_domain[h]} :
         h \in possible_harts[d] /\ hartindex_to_context_table[d][h] = NULL }

\* the step started domain d up on hart h: the hart runs from the entry state
\* of d, or it is stopped, and d has no context for h
StartedUp(h, d) ==
    /\ hartindex_to_domain'[h] = d
    /\ hartindex_to_context_table'[d][h] = NULL
    /\ IF HartIdBase + h = boot_hartid[d]
       THEN /\ hart_state'[h] = "started"
            /\ trap_regs'[h] = EntryRegs(d, boot_hartid[d])
       ELSE hart_state'[h] = "stopped"

\* the step switched hart h to the context of domain d: the hart keeps
\* running, with the trap frame of that context
SwitchedToSlot(h, d) ==
    /\ hartindex_to_domain'[h] = d
    /\ hartindex_to_context_table'[d][h] # NULL
    /\ hart_state'[h] = "started"
    /\ trap_regs'[h] = heap'[hartindex_to_context_table'[d][h]].regs

\* C21 as stated: an exit with no recorded caller starts up the first domain
\* in registry order that is neither root nor the current domain, has the
\* hart in possible_harts and has no context for the hart; if there is none
\* it switches to the context of root; an exit with a recorded caller
\* switches to the context of that caller.
C21_Original ==
    [][\A h \in HartIndexes : IsPdExitStep(h) =>
          IF RecordedCaller(h) # NULL
          THEN SwitchedToSlot(h, RecordedCaller(h))
          ELSE IF Candidates(h) # {}
          THEN StartedUp(h, Min(Candidates(h)))
          ELSE SwitchedToSlot(h, root)]_vars

\* C21, amended: as stated, but when there is no such domain the exit
\* switches to the root domain: to its context if root has one for the hart,
\* and otherwise by starting root up.
C21_ExitTarget ==
    [][\A h \in HartIndexes : IsPdExitStep(h) =>
          IF RecordedCaller(h) # NULL
          THEN SwitchedToSlot(h, RecordedCaller(h))
          ELSE IF Candidates(h) # {}
          THEN StartedUp(h, Min(Candidates(h)))
          ELSE IF hartindex_to_domain[h] = root
                  \/ hartindex_to_context_table[root][h] # NULL
          THEN SwitchedToSlot(h, root)
          ELSE StartedUp(h, root)]_vars

\* an exit with no recorded caller and no domain left to start came from a
\* domain other than root on a hart for which root never had a context
C21_Witness ==
    /\ ev.op = "pd_exit" /\ ev.rc = SBI_OK
    /\ ev.dom = root /\ ev.tail = NULL
    /\ hartindex_to_domain[ev.hart] = root
    /\ hartindex_to_context_table[root][ev.hart] = NULL
    /\ heap[ev.ctx].regs # trap_regs[ev.hart]
(***************************************************************************)
(* C22                                                                     *)
(***************************************************************************)
\* every possible hart of domain d reached the startup of d on its own hart
\* and is stopped there with nothing in progress: no hart of d is left to
\* start another, and a hart of another domain cannot start a hart of d
AllStoppedInStartup(d) ==
    \A i \in possible_harts[d] :
       /\ i \in assigned_harts[d]
       /\ hartindex_to_domain[i] = d
       /\ hart_state[i] = "stopped"
       /\ inflight[i].op = "none"
       /\ ~heap[hartindex_to_context_table[d][i]].initialized

\* C22: with the statements of startup_next_domain_context of the harts
\* interleaved, and hart_start succeeding only on a stopped hart, no domain
\* with several possible harts ends with every possible hart stopped in its
\* startup and its boot hart never run at next_addr.
C22_HandoffProgress ==
    (phase = "run") =>
       \A d \in Domains :
          Cardinality(possible_harts[d]) >= 2 => ~AllStoppedInStartup(d)
====
